---- MODULE Spec2Model ----
(***************************************************************************)
(* Render-state and GPU-resource management layer of GLApp (baselib):      *)
(* Renderer (render-state table), Shader, FrameBuffer and the              *)
(* TextureUpdateHelper blit utility, over a model of the GL driver state.  *)
(*                                                                         *)
(* assert(...) is modelled as fatal termination: the variable `failed`     *)
(* becomes TRUE and no operation runs afterwards.                          *)
(***************************************************************************)
EXTENDS Integers, Sequences, FiniteSets, TLC

(***************************************************************************)
(* Render-state enumerants, in the order of the switch of                  *)
(* Renderer::applyRenderState.  Renderer.h is not part of the sources, so  *)
(* the numeric encoding is the declaration order.                          *)
(***************************************************************************)
STATE_ALPHA_TEST == 0
STATE_ALPHA_TEST_FUNC == 1
STATE_ALPHA_TEST_REF == 2
STATE_BLEND == 3
STATE_BLEND_SRC == 4
STATE_BLEND_DST == 5
STATE_BLEND_OP == 6
STATE_DEPTH_WRITE == 7
STATE_DEPTH_TEST == 8
STATE_DEPTH_FUNC == 9
STATE_DEPTH_CLEAR_VALUE == 10
STATE_CULL_MODE == 11
STATE_DEPTH_BIAS == 12
STATE_MULTISAMPLE == 13
STATE_COUNT == 14

(* Render-state values.  FALSE is the value memset(0) leaves in the table. *)
RS_FALSE == 0
RS_TRUE == 1
ONE == 2
SRC == 3
SRC_ALPHA == 4
DST == 5
DST_ALPHA == 6
ONE_MINUS_SRC == 7
ONE_MINUS_SRC_ALPHA == 8
ONE_MINUS_DST == 9
ONE_MINUS_DST_ALPHA == 10
FUNC_ADD == 11
FUNC_SUBTRACT == 12
FUNC_REVERSE_SUBTRACT == 13
FUNC_MIN == 14
FUNC_MAX == 15
CULL_NONE == 16
CULL_FRONT == 17
CULL_BACK == 18
CULL_FRONT_AND_BACK == 19
DEPTH_BIAS_NONE == 20
DEPTH_BIAS_FILL == 21
DEPTH_BIAS_LINE == 22
DEPTH_BIAS_POINT == 23

(* The largest state enumerant passed to setRenderState by the model. *)
MaxStateInput == 14
(* A value that is no enumerator of any render-state value. *)
InvalidValue == 24

StateInputs == 0..MaxStateInput
ValueInputs ==
    {RS_FALSE, RS_TRUE, ONE, SRC_ALPHA, ONE_MINUS_SRC_ALPHA, FUNC_ADD,
     CULL_NONE, CULL_BACK, InvalidValue}

ImplementedStates ==
    {STATE_BLEND, STATE_BLEND_SRC, STATE_BLEND_DST, STATE_BLEND_OP,
     STATE_DEPTH_TEST, STATE_CULL_MODE}
UnimplementedStates == (0..(STATE_COUNT - 1)) \ ImplementedStates

(* GL names of the texture objects that exist; textures are 1..MaxTexture. *)
MaxTexture == 2
Textures == 1..MaxTexture

(* The largest number of geometries (vertex-array objects) created. *)
MaxGeometry == 2

(* The asset keys clients fetch from the resource cache. *)
Keys == {"x", "y"}

VARIABLES
    m_auState,   \* Renderer::m_auState, the render-state table
    gl,          \* the settings, bindings and objects held by the GL driver
    told,        \* render states for which the driver has been given a setting
    issued,      \* driver calls issued by the last operation, in order
    failed,      \* an assert fired: the process has terminated
    last,        \* the last operation and its arguments
    Shader_m_uCurrentlyBound,                    \* static Shader::m_uCurrentlyBound
    FrameBuffer_m_uCurrentlyBound,               \* static FrameBuffer::m_uCurrentlyBound
    FrameBuffer_m_uCurrentlyBoundColourTarget,   \* static, the tracked colour target
    helper,      \* the TextureUpdateHelper: m_spFrameBuffer and m_spQuadGeometry
    geometries,  \* the StaticGeometry objects clients created, in creation order
    m_Cache,     \* ResourceCache: the instance stored for each key, 0 for none
    handles,     \* per loaded instance, the number of shared handles clients hold
    loaded,      \* per loaded instance, the key the loader was run for
    app          \* the GLFWApp object, its window and the event queue aEvents

vars == <<m_auState, gl, told, issued, failed, last, Shader_m_uCurrentlyBound,
          FrameBuffer_m_uCurrentlyBound, FrameBuffer_m_uCurrentlyBoundColourTarget,
          helper, geometries, m_Cache, handles, loaded, app>>

machineVars == <<m_auState, gl, told, issued, failed, Shader_m_uCurrentlyBound,
                 FrameBuffer_m_uCurrentlyBound,
                 FrameBuffer_m_uCurrentlyBoundColourTarget, helper>>

cacheVars == <<m_Cache, handles, loaded>>

resourceVars == <<Shader_m_uCurrentlyBound, FrameBuffer_m_uCurrentlyBound,
                  FrameBuffer_m_uCurrentlyBoundColourTarget, helper>>

(***************************************************************************)
(* The program state as one record, threaded through the calls an          *)
(* operation makes.                                                        *)
(***************************************************************************)
Machine(tab, g, t, sb, fb, fc, h) ==
    [tab |-> tab, gl |-> g, told |-> t, issued |-> <<>>, failed |-> FALSE,
     applied |-> 0, shaderBound |-> sb, fbBound |-> fb, fbColour |-> fc,
     helper |-> h]

Fatal(st) == [st EXCEPT !.failed = TRUE]

Issue(st, call) == [st EXCEPT !.issued = Append(@, call)]

(* GL capability names and the gl field each one switches. *)
CapField(cap) ==
    CASE cap = "GL_BLEND" -> "blend"
      [] cap = "GL_DEPTH_TEST" -> "depthTest"
      [] cap = "GL_CULL_FACE" -> "cullFace"

glEnable(st, cap) ==
    Issue([st EXCEPT !.gl[CapField(cap)] = "on"], <<"glEnable", cap>>)

glDisable(st, cap) ==
    Issue([st EXCEPT !.gl[CapField(cap)] = "off"], <<"glDisable", cap>>)

glBlendFunc(st, s, d) ==
    Issue([st EXCEPT !.gl.blendSrc = s, !.gl.blendDst = d],
          <<"glBlendFunc", s, d>>)

glBlendEquation(st, e) ==
    Issue([st EXCEPT !.gl.blendEq = e], <<"glBlendEquation", e>>)

glCullFace(st, m) ==
    Issue([st EXCEPT !.gl.cullFaceMode = m], <<"glCullFace", m>>)

glClearColor(st, c) ==
    Issue([st EXCEPT !.gl.clearColor = c], <<"glClearColor", c>>)

glViewport(st, v) ==
    Issue([st EXCEPT !.gl.viewport = v], <<"glViewport", v>>)

(* enableGLState: glEnable for TRUE, glDisable for FALSE, assert otherwise. *)
enableGLState(st, cap, uBool) ==
    CASE uBool = RS_TRUE -> glEnable(st, cap)
      [] uBool = RS_FALSE -> glDisable(st, cap)
      [] OTHER -> Fatal(st)

(* The getGL* translations; "ASSERT" stands for the default: assert(false). *)
getGLBlendFactor(uBlendFactor) ==
    CASE uBlendFactor = ONE -> "GL_ONE"
      [] uBlendFactor = SRC -> "GL_SRC_COLOR"
      [] uBlendFactor = SRC_ALPHA -> "GL_SRC_ALPHA"
      [] uBlendFactor = DST -> "GL_DST_COLOR"
      [] uBlendFactor = DST_ALPHA -> "GL_DST_ALPHA"
      [] uBlendFactor = ONE_MINUS_SRC -> "GL_ONE_MINUS_SRC_COLOR"
      [] uBlendFactor = ONE_MINUS_SRC_ALPHA -> "GL_ONE_MINUS_SRC_ALPHA"
      [] uBlendFactor = ONE_MINUS_DST -> "GL_ONE_MINUS_DST_COLOR"
      [] uBlendFactor = ONE_MINUS_DST_ALPHA -> "GL_ONE_MINUS_DST_ALPHA"
      [] OTHER -> "ASSERT"

getGLBlendOp(uBlendOp) ==
    CASE uBlendOp = FUNC_ADD -> "GL_FUNC_ADD"
      [] uBlendOp = FUNC_SUBTRACT -> "GL_FUNC_SUBTRACT"
      [] uBlendOp = FUNC_REVERSE_SUBTRACT -> "GL_FUNC_REVERSE_SUBTRACT"
      [] uBlendOp = FUNC_MIN -> "GL_MIN"
      [] uBlendOp = FUNC_MAX -> "GL_MAX"
      [] OTHER -> "ASSERT"

getGLCullMode(uCullMode) ==
    CASE uCullMode = CULL_BACK -> "GL_BACK"
      [] uCullMode = CULL_FRONT -> "GL_FRONT"
      [] uCullMode = CULL_FRONT_AND_BACK -> "GL_FRONT_AND_BACK"
      [] OTHER -> "ASSERT"

Tell(st, states) == [st EXCEPT !.told = @ \cup states]

(* glBlendFunc(getGLBlendFactor(a), getGLBlendFactor(b)) with its asserts. *)
BlendFuncCall(st, a, b) ==
    IF getGLBlendFactor(a) = "ASSERT" \/ getGLBlendFactor(b) = "ASSERT"
    THEN Fatal(st)
    ELSE Tell(glBlendFunc(st, getGLBlendFactor(a), getGLBlendFactor(b)),
              {STATE_BLEND_SRC, STATE_BLEND_DST})

(* A variant that forgets to disable culling for CULL_NONE. *)
CullModeCall_noDisable(st, uValue) ==
    IF uValue = CULL_NONE
    THEN Tell(st, {STATE_CULL_MODE})
    ELSE IF getGLCullMode(uValue) = "ASSERT"
         THEN Fatal(enableGLState(st, "GL_CULL_FACE", RS_TRUE))
         ELSE Tell(glCullFace(enableGLState(st, "GL_CULL_FACE", RS_TRUE),
                              getGLCullMode(uValue)),
                   {STATE_CULL_MODE})

(* case STATE_CULL_MODE of applyRenderState *)
CullModeCall(st, uValue) ==
    IF uValue = CULL_NONE
    THEN Tell(enableGLState(st, "GL_CULL_FACE", RS_FALSE), {STATE_CULL_MODE})
    ELSE IF getGLCullMode(uValue) = "ASSERT"
         THEN Fatal(enableGLState(st, "GL_CULL_FACE", RS_TRUE))
         ELSE Tell(glCullFace(enableGLState(st, "GL_CULL_FACE", RS_TRUE),
                              getGLCullMode(uValue)),
                   {STATE_CULL_MODE})

EnableCall(st, uState, cap, uValue) ==
    IF enableGLState(st, cap, uValue).failed
    THEN Fatal(st)
    ELSE Tell(enableGLState(st, cap, uValue), {uState})

(* case STATE_BLEND_SRC: the combined call takes the stored destination factor. *)
applyBlendSrc_ignoresStoredDst(st, uValue) ==
    BlendFuncCall(st, uValue, ONE)

applyBlendSrc(st, uValue) ==
    BlendFuncCall(st, uValue, st.tab[STATE_BLEND_DST])

(* case STATE_BLEND_DST: the combined call takes the stored source factor. *)
applyBlendDst(st, uValue) ==
    BlendFuncCall(st, st.tab[STATE_BLEND_SRC], uValue)

(* Renderer::applyRenderState *)
applyRenderState(st0, uState, uValue) ==
    LET st == [st0 EXCEPT !.applied = @ + 1] IN
    CASE uState \in {STATE_ALPHA_TEST, STATE_ALPHA_TEST_FUNC, STATE_ALPHA_TEST_REF,
                     STATE_DEPTH_WRITE, STATE_DEPTH_FUNC, STATE_DEPTH_CLEAR_VALUE,
                     STATE_DEPTH_BIAS, STATE_MULTISAMPLE,
                     DEPTH_BIAS_NONE, DEPTH_BIAS_FILL, DEPTH_BIAS_LINE,
                     DEPTH_BIAS_POINT} -> Fatal(st)
      [] uState = STATE_BLEND -> EnableCall(st, uState, "GL_BLEND", uValue)
      [] uState = STATE_BLEND_SRC -> applyBlendSrc(st, uValue)
      [] uState = STATE_BLEND_DST -> applyBlendDst(st, uValue)
      [] uState = STATE_BLEND_OP ->
            IF getGLBlendOp(uValue) = "ASSERT"
            THEN Fatal(st)
            ELSE Tell(glBlendEquation(st, getGLBlendOp(uValue)), {STATE_BLEND_OP})
      [] uState = STATE_DEPTH_TEST -> EnableCall(st, uState, "GL_DEPTH_TEST", uValue)
      [] uState = STATE_CULL_MODE -> CullModeCall(st, uValue)
      [] OTHER -> st

(* Variants of setRenderState with a plausible slip each. *)
setRenderState_noTableWrite(st, uState, uValue) ==
    IF ~(uState < STATE_COUNT)
    THEN Fatal(st)
    ELSE IF st.tab[uState] = uValue
         THEN st
         ELSE applyRenderState(st, uState, uValue)

setRenderState_noElision(st, uState, uValue) ==
    IF ~(uState < STATE_COUNT)
    THEN Fatal(st)
    ELSE applyRenderState([st EXCEPT !.tab[uState] = uValue], uState, uValue)

setRenderState_silentRange(st, uState, uValue) ==
    IF ~(uState < STATE_COUNT)
    THEN st
    ELSE IF st.tab[uState] = uValue
         THEN st
         ELSE applyRenderState([st EXCEPT !.tab[uState] = uValue], uState, uValue)

(* Renderer::setRenderState *)
setRenderState(st, uState, uValue) ==
    IF ~(uState < STATE_COUNT)
    THEN Fatal(st)
    ELSE IF st.tab[uState] = uValue
         THEN st
         ELSE applyRenderState([st EXCEPT !.tab[uState] = uValue], uState, uValue)

(* A variant that skips the driver call when the colour is already set. *)
setClearColour_elided(st, v) == IF st.gl.clearColor = v THEN st ELSE glClearColor(st, v)

(* Renderer::setClearColour *)
setClearColour(st, v) == glClearColor(st, v)

(* Renderer::setViewport (called setViewportSize by TextureUpdateHelper) *)
setViewportSize(st, vViewport) == glViewport(st, vViewport)

(* Clear-mask bits of the renderer and of GL. *)
COLOUR_BUFFER == 1
DEPTH_BUFFER == 2
STENCIL_BUFFER == 4
GL_COLOR_BUFFER_BIT == 16384
GL_DEPTH_BUFFER_BIT == 256
GL_STENCIL_BUFFER_BIT == 1024

HasBit(uMask, bit) == (uMask \div bit) % 2 = 1

glClear(st, uGLMask) == Issue(st, <<"glClear", uGLMask>>)

(* A variant that translates the depth bit to the stencil bit. *)
clearMask_depthAsStencil(st, uMask) ==
    glClear(st, (IF HasBit(uMask, COLOUR_BUFFER) THEN GL_COLOR_BUFFER_BIT ELSE 0)
              + (IF HasBit(uMask, DEPTH_BUFFER) THEN GL_STENCIL_BUFFER_BIT ELSE 0)
              + (IF HasBit(uMask, STENCIL_BUFFER) THEN GL_DEPTH_BUFFER_BIT ELSE 0))

(* Renderer::clear(unsigned int uMask) *)
clearMask(st, uMask) ==
    glClear(st, (IF HasBit(uMask, COLOUR_BUFFER) THEN GL_COLOR_BUFFER_BIT ELSE 0)
              + (IF HasBit(uMask, DEPTH_BUFFER) THEN GL_DEPTH_BUFFER_BIT ELSE 0)
              + (IF HasBit(uMask, STENCIL_BUFFER) THEN GL_STENCIL_BUFFER_BIT ELSE 0))

(* Renderer::clear() *)
clear(st) == clearMask(st, COLOUR_BUFFER + DEPTH_BUFFER + STENCIL_BUFFER)

(***************************************************************************)
(* Shader programs.  Each linked program declares a list of uniforms; the  *)
(* location of a uniform is its position in the list, counted from 0.      *)
(* Program 1 is the blit shader, program 2 the test shader (one sampler),  *)
(* program 3 a replacement blit shader that does not declare vPosScale.    *)
(***************************************************************************)
Programs == {1, 2, 3}

ProgramUniforms(prog) ==
    CASE prog = 1 -> <<"vUVOffset", "vUVScale", "vPosOffset", "vPosScale", "sTexture">>
      [] prog = 2 -> <<"sTestTexture">>
      [] prog = 3 -> <<"vUVOffset", "vUVScale", "vPosOffset", "sTexture">>

ProgramAttributes(prog) == <<"position", "texcoord">>

UniformShape(name) ==
    IF name \in {"sTexture", "sTestTexture"} THEN "int" ELSE "vec2"

(* Uniform values: <<shape, x, y, z, w>>, unused components 0. *)
ZeroOf(shape) == <<shape, 0, 0, 0, 0>>
Vec2Value(v) == <<"vec2", v[1], v[2], 0, 0>>
IntValue(i) == <<"int", i, 0, 0, 0>>

(* The Shader objects and the program each one is an instance of. *)
ShaderObjects == {"blit", "blitCopy", "partial", "test"}

m_uID(shader) ==
    CASE shader = "blit" -> 1
      [] shader = "blitCopy" -> 1
      [] shader = "test" -> 2
      [] shader = "partial" -> 3

(* The sentinel index of a name the program does not declare. *)
NotFound == -1

IndexOf(names, name) ==
    IF \E i \in 1..Len(names) : names[i] = name
    THEN (CHOOSE i \in 1..Len(names) : names[i] = name) - 1
    ELSE NotFound

(* Shader::getUniform / Shader::getAttribute *)
getUniform(shader, sName) == IndexOf(ProgramUniforms(m_uID(shader)), sName)

getAttribute(shader, sName) == IndexOf(ProgramAttributes(m_uID(shader)), sName)

glUseProgram(st, prog) ==
    Issue([st EXCEPT !.gl.program = prog], <<"glUseProgram", prog>>)

(* glUniform*: stores into the uniform of the program in use; location -1, *)
(* no program in use, an unknown location or a value of the wrong shape    *)
(* leave every uniform as it was.  The recorded call carries the program   *)
(* that was in use when it was issued.                                     *)
UniformAccepted(g, iIndex, val) ==
    /\ iIndex # NotFound
    /\ g.program \in Programs
    /\ iIndex + 1 \in 1..Len(ProgramUniforms(g.program))
    /\ UniformShape(ProgramUniforms(g.program)[iIndex + 1]) = val[1]

glUniform(st, iIndex, val) ==
    Issue(IF UniformAccepted(st.gl, iIndex, val)
          THEN [st EXCEPT !.gl.uniforms[st.gl.program][iIndex + 1] = val]
          ELSE st,
          <<"glUniform", iIndex, val, st.gl.program>>)

(* Shader::bind, skipping the driver call for the program already bound. *)
Shader_bind_always(st, shader) ==
    [glUseProgram(st, m_uID(shader)) EXCEPT !.shaderBound = m_uID(shader)]

Shader_bind(st, shader) ==
    IF st.shaderBound = m_uID(shader)
    THEN st
    ELSE [glUseProgram(st, m_uID(shader)) EXCEPT !.shaderBound = m_uID(shader)]

(* Shader::setUniform, all overloads: the typed upload call. *)
setUniform(st, shader, iIndex, val) == glUniform(st, iIndex, val)

(***************************************************************************)
(* Framebuffers.  Framebuffer 0 is the back buffer; framebuffer 1 was      *)
(* created with the colour targets <<1, 2>>; the TextureUpdateHelper       *)
(* allocates its empty framebuffer when it is constructed.                 *)
(***************************************************************************)
BackBuffer == 0
OffscreenFB == 1
(* The depth target framebuffer 1 was created with. *)
DepthTexture == MaxTexture + 1
(* FrameBuffer::m_iNumTargets of the framebuffer object with this id. *)
m_iNumTargets(id) == IF id = OffscreenFB THEN 2 ELSE 0
MaxFbo == 2
FboNames == 1..MaxFbo

glGenFramebuffers(st) ==
    Issue([st EXCEPT !.gl.fbos = @ \cup {Cardinality(@) + 1}],
          <<"glGenFramebuffers", Cardinality(st.gl.fbos) + 1>>)

NewFbo(st) == Cardinality(st.gl.fbos) + 1

glBindFramebuffer(st, id) ==
    Issue([st EXCEPT !.gl.framebuffer = id], <<"glBindFramebuffer", id>>)

(* A variant that attaches the texture to every colour slot. *)
glFramebufferTexture2D_everySlot(st, tex) ==
    Issue(IF st.gl.framebuffer \in st.gl.fbos
          THEN [st EXCEPT !.gl.attach[st.gl.framebuffer] = <<tex, tex>>]
          ELSE st,
          <<"glFramebufferTexture2D", 0, tex>>)

(* glFramebufferTexture2D on colour attachment 0 of the bound framebuffer. *)
glFramebufferTexture2D(st, tex) ==
    Issue(IF st.gl.framebuffer \in st.gl.fbos
          THEN [st EXCEPT !.gl.attach[st.gl.framebuffer][1] = tex]
          ELSE st,
          <<"glFramebufferTexture2D", 0, tex>>)

(* FrameBuffer::createEmpty *)
FrameBuffer_createEmpty(st) == glGenFramebuffers(st)

(* FrameBuffer::bind() *)
FrameBuffer_bind_noRecord(st, id) ==
    IF st.fbBound = id
    THEN st
    ELSE glBindFramebuffer(st, id)

FrameBuffer_bind(st, id) ==
    IF st.fbBound = id
    THEN st
    ELSE [glBindFramebuffer(st, id) EXCEPT !.fbBound = id]

(* FrameBuffer::bind(spColourTarget) *)
FrameBuffer_bindTarget_always(st, id, tex) ==
    [glFramebufferTexture2D(FrameBuffer_bind(st, id), tex) EXCEPT !.fbColour = tex]

(* A variant that attaches the texture before it binds the framebuffer. *)
FrameBuffer_bindTarget_attachFirst(st, id, tex) ==
    FrameBuffer_bind(IF st.fbColour = tex
                     THEN st
                     ELSE [glFramebufferTexture2D(st, tex) EXCEPT !.fbColour = tex],
                     id)

FrameBuffer_bindTarget(st, id, tex) ==
    LET b == FrameBuffer_bind(st, id) IN
    IF b.fbColour = tex
    THEN b
    ELSE [glFramebufferTexture2D(b, tex) EXCEPT !.fbColour = tex]

(***************************************************************************)
(* Textures and geometry.                                                  *)
(***************************************************************************)
TextureWidth(tex) == 16 * tex
TextureHeight(tex) == 8 * tex

(* Texture::bind *)
Texture_bind(st, tex) ==
    Issue([st EXCEPT !.gl.texture2D = tex], <<"glBindTexture", tex>>)

glBindVertexArray(st, vao) ==
    Issue([st EXCEPT !.gl.vao = vao], <<"glBindVertexArray", vao>>)

(* Geometry::bind *)
Geometry_bind(st, geometry) == glBindVertexArray(st, geometry.vao)

(* Renderer::drawIndexed *)
drawIndexed(st, ePrimitiveType, iNumIndices, iOffset) ==
    Issue(st, <<"glDrawElements", ePrimitiveType, iNumIndices, iOffset>>)

(* The unit quad of TextureUpdateHelper::init: 4 vertices, 6 indices. *)
QuadVertexList ==
    [attributes |-> << [sName |-> "position", iIndex |-> 0, iNumElements |-> 3,
                        iOffset |-> 0, bNormalized |-> FALSE],
                       [sName |-> "texcoord", iIndex |-> 1, iNumElements |-> 2,
                        iOffset |-> 12, bNormalized |-> TRUE] >>,
     vertexSize |-> 20, numVertices |-> 4,
     indices |-> <<0, 1, 2, 0, 2, 3>>]

glBindBuffer(st, target, buf) ==
    Issue(IF target = "GL_ARRAY_BUFFER"
          THEN [st EXCEPT !.gl.arrayBuffer = buf]
          ELSE [st EXCEPT !.gl.elementBuffer[st.gl.vao] = buf],
          <<"glBindBuffer", target, buf>>)

glGenVertexArrays(st) ==
    Issue([st EXCEPT !.gl.numVaos = @ + 1], <<"glGenVertexArrays", st.gl.numVaos + 1>>)

glGenBuffers(st) ==
    Issue([st EXCEPT !.gl.numBuffers = @ + 1], <<"glGenBuffers", st.gl.numBuffers + 1>>)

glBufferData(st, target, size) == Issue(st, <<"glBufferData", target, size>>)

(* glVertexAttribPointer + glEnableVertexAttribArray for one attribute. *)
SetAttribute(st, va, iVertexSize) ==
    Issue(Issue([st EXCEPT !.gl.attribs[st.gl.vao] =
                     @ \cup {[iIndex |-> va.iIndex, buffer |-> st.gl.arrayBuffer,
                              iOffset |-> va.iOffset]}],
                <<"glVertexAttribPointer", va.iIndex, va.iNumElements,
                  va.bNormalized, iVertexSize, va.iOffset>>),
          <<"glEnableVertexAttribArray", va.iIndex>>)

RECURSIVE SetAttributes(_, _, _, _)
SetAttributes(st, attrs, i, iVertexSize) ==
    IF i > Len(attrs)
    THEN st
    ELSE SetAttributes(SetAttribute(st, attrs[i], iVertexSize), attrs, i + 1,
                       iVertexSize)

(* A variant that unbinds the two buffers before the vertex array. *)
createStaticGeometry_unbindsBuffersFirst(st, vl) ==
    LET a1 == glGenVertexArrays(st)
        uVAO == a1.gl.numVaos
        a2 == glBindVertexArray(a1, uVAO)
        a3 == glGenBuffers(a2)
        uVBO == a3.gl.numBuffers
        a4 == glBufferData(glBindBuffer(a3, "GL_ARRAY_BUFFER", uVBO),
                           "GL_ARRAY_BUFFER", vl.vertexSize * vl.numVertices)
        a5 == SetAttributes(a4, vl.attributes, 1, vl.vertexSize)
        a6 == glGenBuffers(a5)
        uIB == a6.gl.numBuffers
        a7 == glBufferData(glBindBuffer(a6, "GL_ELEMENT_ARRAY_BUFFER", uIB),
                           "GL_ELEMENT_ARRAY_BUFFER", 4 * Len(vl.indices))
        a8 == glBindBuffer(a7, "GL_ARRAY_BUFFER", 0)
        a9 == glBindBuffer(a8, "GL_ELEMENT_ARRAY_BUFFER", 0)
    IN glBindVertexArray(a9, 0)

(* A variant that leaves the vertex buffer bound on return. *)
createStaticGeometry_keepsArrayBuffer(st, vl) ==
    LET a1 == glGenVertexArrays(st)
        uVAO == a1.gl.numVaos
        a2 == glBindVertexArray(a1, uVAO)
        a3 == glGenBuffers(a2)
        uVBO == a3.gl.numBuffers
        a4 == glBufferData(glBindBuffer(a3, "GL_ARRAY_BUFFER", uVBO),
                           "GL_ARRAY_BUFFER", vl.vertexSize * vl.numVertices)
        a5 == SetAttributes(a4, vl.attributes, 1, vl.vertexSize)
        a6 == glGenBuffers(a5)
        uIB == a6.gl.numBuffers
        a7 == glBufferData(glBindBuffer(a6, "GL_ELEMENT_ARRAY_BUFFER", uIB),
                           "GL_ELEMENT_ARRAY_BUFFER", 4 * Len(vl.indices))
        a8 == glBindVertexArray(a7, 0)
    IN glBindBuffer(a8, "GL_ELEMENT_ARRAY_BUFFER", 0)

(* Renderer::createStaticGeometry: the machine after the call. *)
createStaticGeometry(st, vl) ==
    LET a1 == glGenVertexArrays(st)
        uVAO == a1.gl.numVaos
        a2 == glBindVertexArray(a1, uVAO)
        a3 == glGenBuffers(a2)
        uVBO == a3.gl.numBuffers
        a4 == glBufferData(glBindBuffer(a3, "GL_ARRAY_BUFFER", uVBO),
                           "GL_ARRAY_BUFFER", vl.vertexSize * vl.numVertices)
        a5 == SetAttributes(a4, vl.attributes, 1, vl.vertexSize)
        a6 == glGenBuffers(a5)
        uIB == a6.gl.numBuffers
        a7 == glBufferData(glBindBuffer(a6, "GL_ELEMENT_ARRAY_BUFFER", uIB),
                           "GL_ELEMENT_ARRAY_BUFFER", 4 * Len(vl.indices))
        a8 == glBindVertexArray(a7, 0)
        a9 == glBindBuffer(a8, "GL_ARRAY_BUFFER", 0)
    IN glBindBuffer(a9, "GL_ELEMENT_ARRAY_BUFFER", 0)

(* The StaticGeometry object createStaticGeometry returns. *)
StaticGeometryOf(st, vl) ==
    [vao |-> st.gl.numVaos + 1, vbo |-> st.gl.numBuffers + 1,
     ib |-> st.gl.numBuffers + 2, numIndices |-> Len(vl.indices)]

NoGeometry == [vao |-> 0, vbo |-> 0, ib |-> 0, numIndices |-> 0]
NoHelper == [constructed |-> FALSE, fb |-> 0, quad |-> NoGeometry]

(* TextureUpdateHelper::TextureUpdateHelper / init *)
TextureUpdateHelper_init(st) ==
    LET h1 == FrameBuffer_createEmpty(st)
        fb == NewFbo(st)
        h2 == clear(FrameBuffer_bind(h1, fb))
        h3 == createStaticGeometry(h2, QuadVertexList)
    IN [h3 EXCEPT !.helper = [constructed |-> TRUE, fb |-> fb,
                              quad |-> StaticGeometryOf(h2, QuadVertexList)]]

Vec2Sub(a, b) == <<a[1] - b[1], a[2] - b[2]>>

BlitUniforms == {"vUVOffset", "vUVScale", "vPosOffset", "vPosScale", "sTexture"}

(* A variant that treats a uniform the shader does not declare as an error. *)
updateRegion_requiresUniforms(st, vMinFrom, vMaxFrom, input, vMinTo, vMaxTo, target, shader) ==
    LET u1 == FrameBuffer_bindTarget(st, st.helper.fb, target)
        u2 == setViewportSize(u1, <<0, 0, TextureWidth(target), TextureHeight(target)>>)
        u3 == Shader_bind(u2, shader)
    IN IF \E n \in BlitUniforms : getUniform(shader, n) = NotFound
       THEN Fatal(u3)
       ELSE drawIndexed(Geometry_bind(Texture_bind(u3, input), st.helper.quad),
                        "TRIANGLES", st.helper.quad.numIndices, 0)

(* A variant that issues the draw before the quad geometry is bound. *)
updateRegion_drawBeforeQuad(st, vMinFrom, vMaxFrom, input, vMinTo, vMaxTo, target, shader) ==
    LET u1 == FrameBuffer_bindTarget(st, st.helper.fb, target)
        u2 == setViewportSize(u1, <<0, 0, TextureWidth(target), TextureHeight(target)>>)
        u3 == Shader_bind(u2, shader)
        u4 == setUniform(u3, shader, getUniform(shader, "vUVOffset"), Vec2Value(vMinFrom))
        u5 == setUniform(u4, shader, getUniform(shader, "vUVScale"),
                         Vec2Value(Vec2Sub(vMaxFrom, vMinFrom)))
        u6 == setUniform(u5, shader, getUniform(shader, "vPosOffset"), Vec2Value(vMinTo))
        u7 == setUniform(u6, shader, getUniform(shader, "vPosScale"),
                         Vec2Value(Vec2Sub(vMaxTo, vMinTo)))
        u8 == setUniform(u7, shader, getUniform(shader, "sTexture"), IntValue(0))
        u9 == drawIndexed(Texture_bind(u8, input), "TRIANGLES",
                          st.helper.quad.numIndices, 0)
    IN Geometry_bind(u9, st.helper.quad)

(* A variant that binds the shader after it has set the uniforms. *)
updateRegion_bindsShaderLast(st, vMinFrom, vMaxFrom, input, vMinTo, vMaxTo, target, shader) ==
    LET u1 == FrameBuffer_bindTarget(st, st.helper.fb, target)
        u3 == setViewportSize(u1, <<0, 0, TextureWidth(target), TextureHeight(target)>>)
        u4 == setUniform(u3, shader, getUniform(shader, "vUVOffset"), Vec2Value(vMinFrom))
        u5 == setUniform(u4, shader, getUniform(shader, "vUVScale"),
                         Vec2Value(Vec2Sub(vMaxFrom, vMinFrom)))
        u6 == setUniform(u5, shader, getUniform(shader, "vPosOffset"), Vec2Value(vMinTo))
        u7 == setUniform(u6, shader, getUniform(shader, "vPosScale"),
                         Vec2Value(Vec2Sub(vMaxTo, vMinTo)))
        u8 == Shader_bind(setUniform(u7, shader, getUniform(shader, "sTexture"),
                                     IntValue(0)), shader)
        u9 == Geometry_bind(Texture_bind(u8, input), st.helper.quad)
    IN drawIndexed(u9, "TRIANGLES", st.helper.quad.numIndices, 0)

(* A variant that creates a quad of its own for every call. *)
updateRegion_newQuad(st, vMinFrom, vMaxFrom, input, vMinTo, vMaxTo, target, shader) ==
    LET quad == StaticGeometryOf(st, QuadVertexList)
        u0 == createStaticGeometry(st, QuadVertexList)
        u1 == FrameBuffer_bindTarget(u0, st.helper.fb, target)
        u2 == setViewportSize(u1, <<0, 0, TextureWidth(target), TextureHeight(target)>>)
        u3 == Shader_bind(u2, shader)
        u4 == setUniform(u3, shader, getUniform(shader, "vUVOffset"), Vec2Value(vMinFrom))
        u5 == setUniform(u4, shader, getUniform(shader, "vUVScale"),
                         Vec2Value(Vec2Sub(vMaxFrom, vMinFrom)))
        u6 == setUniform(u5, shader, getUniform(shader, "vPosOffset"), Vec2Value(vMinTo))
        u7 == setUniform(u6, shader, getUniform(shader, "vPosScale"),
                         Vec2Value(Vec2Sub(vMaxTo, vMinTo)))
        u8 == setUniform(u7, shader, getUniform(shader, "sTexture"), IntValue(0))
        u9 == Geometry_bind(Texture_bind(u8, input), quad)
    IN drawIndexed(u9, "TRIANGLES", quad.numIndices, 0)

(* A variant that binds the framebuffer bound before the call again. *)
updateRegion_restoresFramebuffer(st, vMinFrom, vMaxFrom, input, vMinTo, vMaxTo, target, shader) ==
    LET u1 == FrameBuffer_bindTarget(st, st.helper.fb, target)
        u2 == setViewportSize(u1, <<0, 0, TextureWidth(target), TextureHeight(target)>>)
        u3 == Shader_bind(u2, shader)
        u4 == setUniform(u3, shader, getUniform(shader, "vUVOffset"), Vec2Value(vMinFrom))
        u5 == setUniform(u4, shader, getUniform(shader, "vUVScale"),
                         Vec2Value(Vec2Sub(vMaxFrom, vMinFrom)))
        u6 == setUniform(u5, shader, getUniform(shader, "vPosOffset"), Vec2Value(vMinTo))
        u7 == setUniform(u6, shader, getUniform(shader, "vPosScale"),
                         Vec2Value(Vec2Sub(vMaxTo, vMinTo)))
        u8 == setUniform(u7, shader, getUniform(shader, "sTexture"), IntValue(0))
        u9 == Geometry_bind(Texture_bind(u8, input), st.helper.quad)
    IN FrameBuffer_bind(drawIndexed(u9, "TRIANGLES", st.helper.quad.numIndices, 0),
                        st.fbBound)

(* TextureUpdateHelper::updateRegion, the seven-argument overload. *)
updateRegion(st, vMinFrom, vMaxFrom, input, vMinTo, vMaxTo, target, shader) ==
    LET u1 == FrameBuffer_bindTarget(st, st.helper.fb, target)
        u2 == setViewportSize(u1, <<0, 0, TextureWidth(target), TextureHeight(target)>>)
        u3 == Shader_bind(u2, shader)
        u4 == setUniform(u3, shader, getUniform(shader, "vUVOffset"), Vec2Value(vMinFrom))
        u5 == setUniform(u4, shader, getUniform(shader, "vUVScale"),
                         Vec2Value(Vec2Sub(vMaxFrom, vMinFrom)))
        u6 == setUniform(u5, shader, getUniform(shader, "vPosOffset"), Vec2Value(vMinTo))
        u7 == setUniform(u6, shader, getUniform(shader, "vPosScale"),
                         Vec2Value(Vec2Sub(vMaxTo, vMinTo)))
        u8 == setUniform(u7, shader, getUniform(shader, "sTexture"), IntValue(0))
        u9 == Geometry_bind(Texture_bind(u8, input), st.helper.quad)
    IN drawIndexed(u9, "TRIANGLES", st.helper.quad.numIndices, 0)

(* The overload without a source region: the whole source, (0,0)-(1,1);    *)
(* `one` is the length 1.0 in the unit of the coordinates.  First a        *)
(* variant that passes the destination region as the source region too.    *)
updateRegion_5_sourceIsDestination(st, one, input, vMinTo, vMaxTo, target, shader) ==
    updateRegion(st, vMinTo, vMaxTo, input, vMinTo, vMaxTo, target, shader)

updateRegion_5(st, one, input, vMinTo, vMaxTo, target, shader) ==
    updateRegion(st, <<0, 0>>, <<one, one>>, input, vMinTo, vMaxTo, target, shader)

(* The overload without any region: the whole source onto the whole target. *)
updateRegion_3(st, one, input, target, shader) ==
    updateRegion_5(st, one, input, <<0, 0>>, <<one, one>>, target, shader)

(***************************************************************************)
(* Initial state: a fresh GL context, then the Renderer is constructed.    *)
(***************************************************************************)
GLDefaults ==
    [blend |-> "off", blendSrc |-> "GL_ONE", blendDst |-> "GL_ZERO",
     blendEq |-> "GL_FUNC_ADD", depthTest |-> "off", cullFace |-> "off",
     cullFaceMode |-> "GL_BACK", clearColor |-> <<0, 0, 0, 0>>,
     viewport |-> <<0, 0, 0, 0>>,
     program |-> 0,
     uniforms |-> [prog \in Programs |->
                     [i \in 1..Len(ProgramUniforms(prog)) |->
                        ZeroOf(UniformShape(ProgramUniforms(prog)[i]))]],
     framebuffer |-> BackBuffer,
     fbos |-> {OffscreenFB},
     attach |-> [f \in FboNames |-> IF f = OffscreenFB THEN <<1, 2>> ELSE <<0, 0>>],
     depth |-> [f \in FboNames |-> IF f = OffscreenFB THEN DepthTexture ELSE 0],
     texture2D |-> 0,
     vao |-> 0, arrayBuffer |-> 0, numVaos |-> 0, numBuffers |-> 0,
     elementBuffer |-> [v \in 0..MaxGeometry |-> 0],
     attribs |-> [v \in 0..MaxGeometry |-> {}]]

(***************************************************************************)
(* GLFWApp: the application object, the window it creates, and the         *)
(* file-static event queue aEvents the GLFW callbacks fill.                 *)
(* Inputs the window system delivers are triples <<kind, a, b>>; queued    *)
(* events are InputEvent records; calls made are triples <<name, a, b>>.   *)
(***************************************************************************)
GLFW_RELEASE == 0
GLFW_PRESS == 1
GLFW_REPEAT == 2
GLFW_KEY_A == 65
GLFW_KEY_ESCAPE == 256
GLFW_MOUSE_BUTTON_LEFT == 0
GLFW_MOUSE_BUTTON_RIGHT == 1
GLFW_MOUSE_BUTTON_MIDDLE == 2
GLFW_MOUSE_BUTTON_4 == 3

InputEvent(eType, i1, i2, i3, d1) ==
    [eType |-> eType, i1 |-> i1, i2 |-> i2, i3 |-> i3, d1 |-> d1]

(* The object after the constructor; shouldClose is the window's flag,     *)
(* polled the inputs the last processEvents received, dispatched and       *)
(* handled the calls it made.                                              *)
GLFWApp ==
    [m_bInitialized |-> FALSE, m_bAppRunning |-> FALSE, shouldClose |-> FALSE,
     m_iMouseX |-> 0, m_iMouseXPrev |-> 0, aEvents |-> <<>>, polled |-> <<>>,
     dispatched |-> <<>>, handled |-> <<>>, failed |-> FALSE]

Handle(a, call) == [a EXCEPT !.handled = Append(@, call)]

Dispatch(a, call) == [a EXCEPT !.dispatched = Append(@, call)]

keyEventCallback(a, iKey, iAction) ==
    [a EXCEPT !.aEvents = Append(@, InputEvent("KEY_EVENT", iKey, 0, iAction, 0)),
              !.shouldClose = @ \/ (iKey = GLFW_KEY_ESCAPE /\ iAction = GLFW_PRESS)]

mouseButtonCallback(a, iButton, iAction) ==
    [a EXCEPT !.aEvents = Append(@, InputEvent("MOUSE_BUTTON_EVENT", iButton, iAction, 0, 0))]

mouseEnterCallback(a, iEnter) ==
    [a EXCEPT !.aEvents = Append(@, InputEvent("MOUSE_ENTER_EVENT", iEnter, 0, 0, 0))]

mouseScrollCallback(a, dY) ==
    [a EXCEPT !.aEvents = Append(@, InputEvent("MOUSE_SCROLL_EVENT", 0, 0, 0, dY))]

(* What GLFW does with one input: run the callback registered for it; a    *)
(* click on the close button sets the window's flag, no callback is set.   *)
Deliver(a, input) ==
    CASE input[1] = "key" -> keyEventCallback(a, input[2], input[3])
      [] input[1] = "button" -> mouseButtonCallback(a, input[2], input[3])
      [] input[1] = "enter" -> mouseEnterCallback(a, input[2])
      [] input[1] = "scroll" -> mouseScrollCallback(a, input[2])
      [] input[1] = "close" -> [a EXCEPT !.shouldClose = TRUE]

RECURSIVE glfwPollEvents(_, _)
glfwPollEvents(a, inputs) ==
    IF inputs = <<>> THEN a
    ELSE glfwPollEvents(Deliver(a, Head(inputs)), Tail(inputs))

(* GLFWApp::keyEvent *)
keyEvent(a, iKey, iAction) ==
    IF iAction = GLFW_PRESS \/ iAction = GLFW_REPEAT
    THEN Handle(a, <<"onKeyPress", iKey, 0>>)
    ELSE IF iAction = GLFW_RELEASE
         THEN Handle(a, <<"onKeyRelease", iKey, 0>>)
         ELSE a

(* GLFWApp::mouseMove, with the cursor position glfwGetCursorPos returns *)
mouseMove(a, xPos) ==
    LET a1 == [a EXCEPT !.m_iMouseXPrev = a.m_iMouseX, !.m_iMouseX = xPos]
    IN IF a1.m_iMouseX # a1.m_iMouseXPrev
       THEN Handle(Handle(a1, <<"onMouseMove", a1.m_iMouseX, 0>>),
                   <<"onMouseMoveRel", a1.m_iMouseX - a1.m_iMouseXPrev, 0>>)
       ELSE a1

(* GLFWApp::mouseButton *)
mouseButton(a, iButton, iAction) ==
    CASE iButton = GLFW_MOUSE_BUTTON_LEFT ->
           IF iAction = GLFW_PRESS THEN Handle(a, <<"onMouseLeftClick", a.m_iMouseX, 0>>)
           ELSE IF iAction = GLFW_RELEASE
                THEN Handle(a, <<"onMouseLeftRelease", a.m_iMouseX, 0>>) ELSE a
      [] iButton = GLFW_MOUSE_BUTTON_RIGHT ->
           IF iAction = GLFW_PRESS THEN Handle(a, <<"onMouseRightClick", a.m_iMouseX, 0>>)
           ELSE IF iAction = GLFW_RELEASE
                THEN Handle(a, <<"onMouseRightRelease", a.m_iMouseX, 0>>) ELSE a
      [] iButton = GLFW_MOUSE_BUTTON_MIDDLE ->
           IF iAction = GLFW_PRESS THEN Handle(a, <<"onMouseMiddleClick", a.m_iMouseX, 0>>)
           ELSE IF iAction = GLFW_RELEASE
                THEN Handle(a, <<"onMouseMiddleRelease", a.m_iMouseX, 0>>) ELSE a
      [] OTHER -> [a EXCEPT !.failed = TRUE]

(* GLFWApp::mouseScroll *)
mouseScroll(a, dScroll) == Handle(a, <<"onMouseScroll", dScroll, 0>>)

(* GLFWApp::mouseEnter *)
mouseEnter(a, iEnter) ==
    IF iEnter = 1 THEN Handle(a, <<"onMouseEnter", 0, 0>>)
    ELSE IF iEnter = 0 THEN Handle(a, <<"onMouseExit", 0, 0>>) ELSE a

(* The switch of processEvents on one event taken from the queue. *)
DispatchEvent(a, sEvent) ==
    CASE sEvent.eType = "KEY_EVENT" ->
           keyEvent(Dispatch(a, <<"keyEvent", sEvent.i1, sEvent.i3>>), sEvent.i1, sEvent.i3)
      [] sEvent.eType = "MOUSE_BUTTON_EVENT" ->
           mouseButton(Dispatch(a, <<"mouseButton", sEvent.i1, sEvent.i2>>),
                       sEvent.i1, sEvent.i2)
      [] sEvent.eType = "MOUSE_ENTER_EVENT" ->
           mouseEnter(Dispatch(a, <<"mouseEnter", sEvent.i1, 0>>), sEvent.i1)
      [] sEvent.eType = "MOUSE_SCROLL_EVENT" ->
           mouseScroll(Dispatch(a, <<"mouseScroll", sEvent.d1, 0>>), sEvent.d1)
      [] OTHER -> [a EXCEPT !.failed = TRUE]

(* A variant of the loop that takes the oldest event first. *)
RECURSIVE ProcessQueue_oldestFirst(_)
ProcessQueue_oldestFirst(a) ==
    IF a.aEvents = <<>> \/ a.failed THEN a
    ELSE ProcessQueue_oldestFirst(
           DispatchEvent([a EXCEPT !.aEvents = Tail(@)], Head(a.aEvents)))

(* while (!aEvents.empty()) { sEvent = aEvents.back(); aEvents.pop_back(); *)
(* switch ... }; an assert that fires ends the process inside the loop.    *)
RECURSIVE ProcessQueue(_)
ProcessQueue(a) ==
    IF a.aEvents = <<>> \/ a.failed THEN a
    ELSE ProcessQueue(
           DispatchEvent([a EXCEPT !.aEvents = SubSeq(@, 1, Len(@) - 1)],
                         a.aEvents[Len(a.aEvents)]))

(* GLFWApp::start *)
start(a) == [a EXCEPT !.m_bAppRunning = TRUE, !.m_bInitialized = TRUE]

BeginCall(a, inputs) ==
    [a EXCEPT !.polled = inputs, !.dispatched = <<>>, !.handled = <<>>]

(* A variant that takes the oldest queued event first. *)
processEvents_oldestFirst(a, inputs, xPos) ==
    LET a0 == BeginCall(a, inputs)
        a1 == IF a0.shouldClose THEN [a0 EXCEPT !.m_bAppRunning = FALSE] ELSE a0
    IN ProcessQueue_oldestFirst(mouseMove(glfwPollEvents(a1, inputs), xPos))

(* A variant that reads the window's flag after polling. *)
processEvents_flagAfterPoll(a, inputs, xPos) ==
    LET a1 == glfwPollEvents(BeginCall(a, inputs), inputs)
        a2 == IF a1.shouldClose THEN [a1 EXCEPT !.m_bAppRunning = FALSE] ELSE a1
    IN ProcessQueue(mouseMove(a2, xPos))

(* GLFWApp::processEvents; inputs are what the window system has for this  *)
(* call's glfwPollEvents, xPos the cursor position.                        *)
processEvents(a, inputs, xPos) ==
    LET a0 == BeginCall(a, inputs)
        a1 == IF a0.shouldClose THEN [a0 EXCEPT !.m_bAppRunning = FALSE] ELSE a0
    IN ProcessQueue(mouseMove(glfwPollEvents(a1, inputs), xPos))

(* The table after memset and the two assignments of Renderer::init. *)
InitTable ==
    [s \in 0..(STATE_COUNT - 1) |->
        IF s \in {STATE_BLEND_DST, STATE_BLEND_SRC} THEN ONE ELSE 0]

(* Renderer::init, called by the constructor. *)
RendererInit ==
    LET s0 == Machine(InitTable, GLDefaults, {}, 0, BackBuffer, 0, NoHelper)
        s1 == setClearColour(s0, <<0, 0, 0, 0>>)
        s2 == setRenderState(s1, STATE_DEPTH_TEST, RS_TRUE)
        s3 == setRenderState(s2, STATE_CULL_MODE, CULL_NONE)
        s4 == setRenderState(s3, STATE_BLEND, RS_FALSE)
        s5 == setRenderState(s4, STATE_BLEND_SRC, SRC_ALPHA)
        s6 == setRenderState(s5, STATE_BLEND_DST, ONE_MINUS_SRC_ALPHA)
    IN glViewport(s6, <<0, 0, 640, 480>>)

Current ==
    Machine(m_auState, gl, told, Shader_m_uCurrentlyBound,
            FrameBuffer_m_uCurrentlyBound, FrameBuffer_m_uCurrentlyBoundColourTarget,
            helper)

CommitMachine(st) ==
    /\ m_auState' = st.tab
    /\ gl' = st.gl
    /\ told' = st.told
    /\ issued' = st.issued
    /\ failed' = st.failed
    /\ Shader_m_uCurrentlyBound' = st.shaderBound
    /\ FrameBuffer_m_uCurrentlyBound' = st.fbBound
    /\ FrameBuffer_m_uCurrentlyBoundColourTarget' = st.fbColour
    /\ helper' = st.helper

(* An operation that touches neither the clients' geometries nor the cache. *)
Commit(st) ==
    /\ CommitMachine(st)
    /\ UNCHANGED <<geometries, cacheVars, app>>

Op(name, a, b, c, n, st) ==
    [op |-> name, state |-> a, value |-> b, old |-> c, applied |-> st.applied,
     repeat |-> (last.op = name /\ last.state = a /\ last.value = b),
     name |-> n]

Init ==
    /\ m_auState = RendererInit.tab
    /\ gl = RendererInit.gl
    /\ told = RendererInit.told
    /\ issued = RendererInit.issued
    /\ failed = RendererInit.failed
    /\ Shader_m_uCurrentlyBound = RendererInit.shaderBound
    /\ FrameBuffer_m_uCurrentlyBound = RendererInit.fbBound
    /\ FrameBuffer_m_uCurrentlyBoundColourTarget = RendererInit.fbColour
    /\ helper = RendererInit.helper
    /\ geometries = <<>>
    /\ m_Cache = [k \in Keys |-> 0]
    /\ handles = <<>>
    /\ loaded = <<>>
    /\ app = GLFWApp
    /\ last = [op |-> "init", state |-> 0, value |-> 0, old |-> 0, applied |-> 0,
               repeat |-> FALSE, name |-> ""]

(* A client calls Renderer::setRenderState(uState, uValue). *)
SetRenderState(uState, uValue) ==
    /\ ~failed
    /\ Commit(setRenderState(Current, uState, uValue))
    /\ last' = Op("setRenderState", uState, uValue,
                  IF uState < STATE_COUNT THEN m_auState[uState] ELSE -1, "",
                  setRenderState(Current, uState, uValue))

Next ==
    \E uState \in StateInputs, uValue \in ValueInputs : SetRenderState(uState, uValue)

Spec == Init /\ [][Next]_vars

(***************************************************************************)
(* The shader specification: clients bind shaders, look names up and set   *)
(* uniforms.                                                               *)
(***************************************************************************)
NameInputs == {"vUVOffset", "vPosScale", "sTexture", "sTestTexture", "vMissing"}

ValueShapes == {"float", "int", "vec2", "vec3", "vec4"}

(* One value of each supported shape, components 1 where the shape has them. *)
SampleValue(shape) ==
    CASE shape = "float" -> <<"float", 1, 0, 0, 0>>
      [] shape = "int" -> <<"int", 1, 0, 0, 0>>
      [] shape = "vec2" -> <<"vec2", 1, 1, 0, 0>>
      [] shape = "vec3" -> <<"vec3", 1, 1, 1, 0>>
      [] shape = "vec4" -> <<"vec4", 1, 1, 1, 1>>

(* shader->bind() *)
ShaderBind(shader) ==
    /\ ~failed
    /\ Commit(Shader_bind(Current, shader))
    /\ last' = Op("Shader::bind", m_uID(shader), 0, Shader_m_uCurrentlyBound, "",
                  Current)

(* shader->getUniform(sName) or shader->getAttribute(sName) *)
ShaderLookup(shader, kind, sName) ==
    /\ ~failed
    /\ Commit(Current)
    /\ last' = Op(kind, m_uID(shader),
                  IF kind = "Shader::getUniform"
                  THEN getUniform(shader, sName) ELSE getAttribute(shader, sName),
                  0, sName, Current)

(* shader->setUniform(shader->getUniform(sName), value) *)
ShaderSetUniform(shader, sName, shape) ==
    /\ ~failed
    /\ Commit(setUniform(Current, shader, getUniform(shader, sName), SampleValue(shape)))
    /\ last' = Op("Shader::setUniform", m_uID(shader), getUniform(shader, sName), 0,
                  sName, Current)

NextShader ==
    \/ \E shader \in ShaderObjects : ShaderBind(shader)
    \/ \E shader \in ShaderObjects, sName \in {"vPosScale", "position", "vMissing"},
          kind \in {"Shader::getUniform", "Shader::getAttribute"} :
              ShaderLookup(shader, kind, sName)
    \/ \E shader \in ShaderObjects, sName \in NameInputs, shape \in ValueShapes :
              ShaderSetUniform(shader, sName, shape)

SpecShader == Init /\ [][NextShader]_vars

(***************************************************************************)
(* The framebuffer specification: clients bind framebuffers, with and      *)
(* without a colour target; the helper is constructed at some point.       *)
(***************************************************************************)
FrameBufferObjects == {BackBuffer, OffscreenFB} \cup (IF helper.constructed THEN {helper.fb} ELSE {})

(* fb->bind() *)
FrameBufferBind(id) ==
    /\ ~failed
    /\ Commit(FrameBuffer_bind(Current, id))
    /\ last' = Op("FrameBuffer::bind", id, 0, FrameBuffer_m_uCurrentlyBound, "", Current)

(* fb->bind(spColourTarget) *)
FrameBufferBindTarget(id, tex) ==
    /\ ~failed
    /\ Commit(FrameBuffer_bindTarget(Current, id, tex))
    /\ last' = Op("FrameBuffer::bind(target)", id, tex,
                  FrameBuffer_m_uCurrentlyBoundColourTarget, "", Current)

(* TextureUpdateHelper::create(spRenderer) *)
ConstructHelper ==
    /\ ~failed
    /\ ~helper.constructed
    /\ Commit(TextureUpdateHelper_init(Current))
    /\ last' = Op("TextureUpdateHelper", 0, 0, 0, "", Current)

NextFB ==
    \/ \E id \in FrameBufferObjects : FrameBufferBind(id)
    \/ \E id \in FrameBufferObjects, tex \in Textures : FrameBufferBindTarget(id, tex)
    \/ ConstructHelper

SpecFB == Init /\ [][NextFB]_vars

(***************************************************************************)
(* The blit specification: the helper is constructed and updateRegion is   *)
(* called with a source texture other than the destination, interleaved    *)
(* with framebuffer binds and shader lookups.                              *)
(***************************************************************************)
Unit == 4
FullRegion == << <<0, 0>>, <<Unit, Unit>> >>
CentreRegion == << <<1, 1>>, <<3, 3>> >>
LowerLeftRegion == << <<0, 0>>, <<2, 2>> >>
(* The (source region, destination region) pairs the clients blit. *)
RegionPairs == {<<FullRegion, FullRegion>>, <<CentreRegion, LowerLeftRegion>>}

RegionPairName(rp) ==
    IF rp = <<FullRegion, FullRegion>> THEN "whole to whole"
    ELSE IF rp = <<FullRegion, LowerLeftRegion>> THEN "whole to lower left"
    ELSE "centre to lower left"

(* The texture the clients blit into target: the next texture, never the   *)
(* target itself.                                                          *)
SourceOf(target) == (target % MaxTexture) + 1

(* The shaders the clients blit with. *)
BlitShaders == {"blit", "partial", "test"}

(* helper->updateRegion(vMinFrom, vMaxFrom, input, vMinTo, vMaxTo, target, shader) *)
UpdateRegion(rp, input, target, shader) ==
    /\ ~failed
    /\ helper.constructed
    /\ Commit(updateRegion(Current, rp[1][1], rp[1][2], input, rp[2][1], rp[2][2],
                           target, shader))
    /\ last' = Op("updateRegion", m_uID(shader), target, input, RegionPairName(rp),
                  Current)

(* helper->updateRegion(input, vMinTo, vMaxTo, target, shader) *)
UpdateRegion5(input, to, target, shader) ==
    /\ ~failed
    /\ helper.constructed
    /\ Commit(updateRegion_5(Current, Unit, input, to[1], to[2], target, shader))
    /\ last' = Op("updateRegion/5", m_uID(shader), target, input,
                  RegionPairName(<<FullRegion, to>>), Current)

(* helper->updateRegion(input, target, shader) *)
UpdateRegion3(input, target, shader) ==
    /\ ~failed
    /\ helper.constructed
    /\ Commit(updateRegion_3(Current, Unit, input, target, shader))
    /\ last' = Op("updateRegion/3", m_uID(shader), target, input,
                  RegionPairName(<<FullRegion, FullRegion>>), Current)

NextBlit ==
    \/ ConstructHelper
    \/ \E rp \in RegionPairs, target \in Textures, shader \in BlitShaders :
              UpdateRegion(rp, SourceOf(target), target, shader)
    \/ \E target \in Textures :
              UpdateRegion5(SourceOf(target), LowerLeftRegion, target, "blit")
    \/ \E target \in Textures :
              UpdateRegion3(SourceOf(target), target, "blit")
    \/ \E id \in FrameBufferObjects : FrameBufferBind(id)
    \/ \E shader \in {"partial"}, sName \in {"vPosScale", "position"},
          kind \in {"Shader::getUniform", "Shader::getAttribute"} :
              ShaderLookup(shader, kind, sName)
    \/ \E shape \in ValueShapes : ShaderSetUniform("partial", "vPosScale", shape)

SpecBlit == Init /\ [][NextBlit]_vars

(***************************************************************************)
(* The drawing specification: clients clear, create static geometry from   *)
(* vertex lists (also empty ones) and draw the geometry they created.      *)
(***************************************************************************)
(* The largest abstract clear mask passed to clear(uMask). *)
MaxMask == 15

TriangleVertexList ==
    [attributes |-> << [sName |-> "position", iIndex |-> 0, iNumElements |-> 3,
                        iOffset |-> 0, bNormalized |-> FALSE] >>,
     vertexSize |-> 12, numVertices |-> 3,
     indices |-> <<0, 1, 2>>]

VertexListNames == {"quad", "triangle", "no vertices", "no indices", "empty"}

VertexListOf(name) ==
    CASE name = "quad" -> QuadVertexList
      [] name = "triangle" -> TriangleVertexList
      [] name = "no vertices" -> [QuadVertexList EXCEPT !.numVertices = 0]
      [] name = "no indices" -> [QuadVertexList EXCEPT !.indices = <<>>]
      [] name = "empty" -> [QuadVertexList EXCEPT !.numVertices = 0, !.indices = <<>>]

(* What an indexed draw of all indices of a geometry created from vl does: *)
(* nothing for no index, the primitives when every index names a vertex of *)
(* the vertex buffer; reading past the vertex buffer is undefined, the     *)
(* driver renders garbage or the process crashes.                          *)
DrawOutcomes(vl) ==
    IF Len(vl.indices) = 0
    THEN {"nothing"}
    ELSE IF \A i \in 1..Len(vl.indices) : vl.indices[i] < vl.numVertices
         THEN {"primitives"}
         ELSE {"garbage", "crash"}

(* renderer->clear(uMask) *)
Clear(uMask) ==
    /\ ~failed
    /\ Commit(clearMask(Current, uMask))
    /\ last' = Op("clear", uMask, 0, 0, "", Current)

(* renderer->clear() *)
ClearAll ==
    /\ ~failed
    /\ Commit(clear(Current))
    /\ last' = Op("clear()", 0, 0, 0, "", Current)

(* spGeometry = renderer->createStaticGeometry(spVertexList) *)
CreateStaticGeometry(name) ==
    /\ ~failed
    /\ Len(geometries) < MaxGeometry
    /\ CommitMachine(createStaticGeometry(Current, VertexListOf(name)))
    /\ geometries' = Append(geometries,
                            [geometry |-> StaticGeometryOf(Current, VertexListOf(name)),
                             spVertexList |-> name])
    /\ last' = Op("createStaticGeometry", Len(geometries) + 1, 0, 0, name, Current)
    /\ UNCHANGED <<cacheVars, app>>

(* spGeometry->bind(); renderer->drawIndexed(TRIANGLES, getNumIndices(), 0) *)
Draw(i, outcome) ==
    /\ ~failed
    /\ outcome \in DrawOutcomes(VertexListOf(geometries[i].spVertexList))
    /\ Commit([drawIndexed(Geometry_bind(Current, geometries[i].geometry), "TRIANGLES",
                           geometries[i].geometry.numIndices, 0)
                  EXCEPT !.failed = (outcome = "crash")])
    /\ last' = Op("draw", i, geometries[i].geometry.numIndices, 0, outcome, Current)

NextDraw ==
    \/ \E uMask \in 0..MaxMask : Clear(uMask)
    \/ ClearAll
    \/ \E name \in VertexListNames : CreateStaticGeometry(name)
    \/ \E i \in 1..Len(geometries),
          outcome \in {"nothing", "primitives", "garbage", "crash"} : Draw(i, outcome)

SpecDraw == Init /\ [][NextDraw]_vars

(***************************************************************************)
(* The resource cache (ResourceCache<Texture> of the TextureLoader).  An   *)
(* entry refers to the instance loaded for its key without keeping it      *)
(* alive: the instance lives as long as a client holds a shared handle.    *)
(* Instances are numbered in the order the loader produced them.           *)
(***************************************************************************)
(* The largest number of loader runs and of handles held on one instance. *)
MaxLoads == 4
MaxHandles == 2

CurrentCache == [m_Cache |-> m_Cache, handles |-> handles, loaded |-> loaded,
                 returned |-> 0]

Alive(c, k) == c.m_Cache[k] # 0 /\ c.handles[c.m_Cache[k]] > 0

(* The loader runs for key k and the cache stores the new instance. *)
Load(c, k) ==
    [m_Cache |-> [c.m_Cache EXCEPT ![k] = Len(c.loaded) + 1],
     handles |-> Append(c.handles, 1),
     loaded |-> Append(c.loaded, k),
     returned |-> Len(c.loaded) + 1]

(* Variants of fetch: one hands out the stored instance although no handle *)
(* keeps it alive any more, one runs the loader on every call.             *)
ResourceCache_fetch_keepsExpired(c, k) ==
    IF c.m_Cache[k] # 0
    THEN [c EXCEPT !.handles[c.m_Cache[k]] = @ + 1, !.returned = c.m_Cache[k]]
    ELSE Load(c, k)

ResourceCache_fetch_alwaysLoads(c, k) == Load(c, k)

(* ResourceCache::fetch(key) *)
ResourceCache_fetch(c, k) ==
    IF Alive(c, k)
    THEN [c EXCEPT !.handles[c.m_Cache[k]] = @ + 1, !.returned = c.m_Cache[k]]
    ELSE Load(c, k)

(* A client calls fetch(k) and keeps the handle. *)
Fetch(k) ==
    /\ ~failed
    /\ Len(ResourceCache_fetch(CurrentCache, k).loaded) <= MaxLoads
    /\ \A i \in 1..Len(handles) :
          ResourceCache_fetch(CurrentCache, k).handles[i] <= MaxHandles
    /\ m_Cache' = ResourceCache_fetch(CurrentCache, k).m_Cache
    /\ handles' = ResourceCache_fetch(CurrentCache, k).handles
    /\ loaded' = ResourceCache_fetch(CurrentCache, k).loaded
    /\ last' = Op("fetch", ResourceCache_fetch(CurrentCache, k).returned,
                  Len(ResourceCache_fetch(CurrentCache, k).loaded) - Len(loaded),
                  m_Cache[k], k, Current)
    /\ UNCHANGED <<machineVars, geometries, app>>

(* A client drops one of the handles it holds on instance i. *)
Release(i) ==
    /\ ~failed
    /\ handles[i] > 0
    /\ handles' = [handles EXCEPT ![i] = @ - 1]
    /\ last' = Op("release", i, 0, 0, loaded[i], Current)
    /\ UNCHANGED <<machineVars, geometries, m_Cache, loaded, app>>

NextCache ==
    \/ \E k \in Keys : Fetch(k)
    \/ \E i \in 1..Len(handles) : Release(i)

SpecCache == Init /\ [][NextCache]_vars

(***************************************************************************)
(* The application's main loop: start, then processEvents while the app    *)
(* is running.                                                             *)
(***************************************************************************)
MaxEvents == 2
(* Where glfwGetCursorPos finds the cursor: the first turn of the loop     *)
(* sees it moved from its initial place, later turns see it at rest.       *)
CursorPositions == {1}

Inputs ==
    {<<"key", GLFW_KEY_A, GLFW_PRESS>>, <<"key", GLFW_KEY_A, GLFW_RELEASE>>,
     <<"key", GLFW_KEY_ESCAPE, GLFW_PRESS>>,
     <<"button", GLFW_MOUSE_BUTTON_LEFT, GLFW_PRESS>>,
     <<"button", GLFW_MOUSE_BUTTON_4, GLFW_PRESS>>,
     <<"enter", 1, 0>>, <<"scroll", 1, 0>>, <<"close", 0, 0>>}

InputSeqs == UNION {[1..n -> Inputs] : n \in 0..MaxEvents}

(* app.start() *)
Start ==
    /\ ~failed /\ ~app.m_bInitialized
    /\ app' = start(app)
    /\ UNCHANGED <<machineVars, geometries, cacheVars>>
    /\ last' = Op("start", 0, 0, 0, "", Current)

(* app.processEvents(), one turn of while (app.isAppRunning()) *)
ProcessEvents(inputs, xPos) ==
    /\ ~failed /\ app.m_bInitialized /\ app.m_bAppRunning
    /\ app' = processEvents(app, inputs, xPos)
    /\ CommitMachine([Current EXCEPT !.failed = processEvents(app, inputs, xPos).failed])
    /\ UNCHANGED <<geometries, cacheVars>>
    /\ last' = Op("processEvents", Len(inputs), xPos,
                  IF app.shouldClose THEN 1 ELSE 0, "", Current)

NextApp ==
    \/ Start
    \/ \E inputs \in InputSeqs, xPos \in CursorPositions : ProcessEvents(inputs, xPos)

SpecApp == Init /\ [][NextApp]_vars

(***************************************************************************)
(* Texture updates between other uses of the renderer: render states,      *)
(* the viewport, framebuffers and shaders set by the client.               *)
(***************************************************************************)
NextRegion ==
    \/ ConstructHelper
    \/ \E target \in Textures, shader \in BlitShaders :
          UpdateRegion(<<CentreRegion, LowerLeftRegion>>, SourceOf(target), target, shader)
    \/ \E uState \in {STATE_BLEND}, uValue \in {RS_FALSE, RS_TRUE} :
          SetRenderState(uState, uValue)
    \/ \E id \in {BackBuffer, OffscreenFB} : FrameBufferBind(id)
    \/ \E shader \in {"test"} : ShaderBind(shader)

SpecRegion == Init /\ [][NextRegion]_vars

(***************************************************************************)
(* The renderer's context values: clear colour and viewport, set by their  *)
(* own member functions, next to render states set through                 *)
(* setRenderState.                                                         *)
(***************************************************************************)
ClearColours == <<(<<0, 0, 0, 0>>), <<1, 1, 1, 1>>, <<0, 0, 1, 1>>>>
Viewports == <<(<<0, 0, 640, 480>>), <<0, 0, 16, 8>>, <<8, 4, 16, 8>>>>
ContextStates == {STATE_BLEND, STATE_DEPTH_TEST}

(* renderer->setClearColour(ClearColours[i]) *)
SetClearColour(i) ==
    /\ ~failed
    /\ Commit(setClearColour(Current, ClearColours[i]))
    /\ last' = Op("setClearColour", i, 0,
                  IF gl.clearColor = ClearColours[i] THEN 1 ELSE 0, "", Current)

(* renderer->setViewport(Viewports[i]) *)
SetViewport(i) ==
    /\ ~failed
    /\ Commit(setViewportSize(Current, Viewports[i]))
    /\ last' = Op("setViewport", i, 0,
                  IF gl.viewport = Viewports[i] THEN 1 ELSE 0, "", Current)

NextContext ==
    \/ \E i \in 1..Len(ClearColours) : SetClearColour(i)
    \/ \E i \in 1..Len(Viewports) : SetViewport(i)
    \/ \E uState \in ContextStates, uValue \in {RS_FALSE, RS_TRUE} :
          SetRenderState(uState, uValue)

SpecContext == Init /\ [][NextContext]_vars

(***************************************************************************)
(* Properties of the render-state machine (specification Spec).            *)
(***************************************************************************)
OnOff(uBool) == IF uBool = RS_TRUE THEN "on" ELSE IF uBool = RS_FALSE THEN "off" ELSE "ASSERT"

(* The driver's setting for render state s is the one the table entry names. *)
Corresponds(s) ==
    CASE s = STATE_BLEND -> gl.blend = OnOff(m_auState[s])
      [] s = STATE_BLEND_SRC -> gl.blendSrc = getGLBlendFactor(m_auState[s])
      [] s = STATE_BLEND_DST -> gl.blendDst = getGLBlendFactor(m_auState[s])
      [] s = STATE_BLEND_OP -> gl.blendEq = getGLBlendOp(m_auState[s])
      [] s = STATE_DEPTH_TEST -> gl.depthTest = OnOff(m_auState[s])
      [] s = STATE_CULL_MODE ->
            IF m_auState[s] = CULL_NONE
            THEN gl.cullFace = "off"
            ELSE gl.cullFace = "on" /\ gl.cullFaceMode = getGLCullMode(m_auState[s])

IsSet == last.op = "setRenderState"

RepeatedPair ==
    /\ IsSet /\ ~failed
    /\ last'.op = "setRenderState"
    /\ last'.state = last.state /\ last'.value = last.value

(* C2 as stated: the same (state, value) pair issued twice in a row        *)
(* triggers exactly one driver state change over the two calls.            *)
C2_ExactlyOneChange ==
    [][RepeatedPair => last.applied + last'.applied = 1]_vars

(* C2 amended: the second call of the pair triggers no driver state change *)
(* and issues no driver call; the pair triggers exactly one change when    *)
(* the table did not hold the value before the first call, and none when   *)
(* it did.                                                                 *)
C2_AtMostOneChange ==
    [][RepeatedPair =>
          /\ last'.applied = 0 /\ issued' = <<>> /\ ~failed'
          /\ last.applied + last'.applied =
                (IF last.old # last.value THEN 1 ELSE 0)]_vars

C2_Witness ==
    /\ IsSet /\ ~failed /\ last.repeat
    /\ last.state = STATE_BLEND_OP /\ last.value = FUNC_ADD

(* C3: a setRenderState call whose value the table already holds issues no *)
(* driver call and changes neither the table nor the driver; a call with a *)
(* different value changes the table entry of its state and no other.      *)
C3_Frame ==
    [][(last'.op = "setRenderState" /\ last'.state < STATE_COUNT) =>
          /\ (m_auState[last'.state] = last'.value =>
                 /\ issued' = <<>> /\ ~failed'
                 /\ m_auState' = m_auState /\ gl' = gl /\ told' = told)
          /\ (m_auState[last'.state] # last'.value =>
                 /\ m_auState' = [m_auState EXCEPT ![last'.state] = last'.value]
                 /\ last'.applied = 1)]_vars

C3_Witness ==
    /\ IsSet /\ ~failed /\ last.old = last.value /\ issued = <<>>
    /\ last.state = STATE_CULL_MODE /\ last.value = CULL_BACK

(* C4: every change of BLEND_SRC or BLEND_DST issues exactly one combined  *)
(* glBlendFunc call, built from the new value and the stored value of the  *)
(* other factor, and after every returning call the driver's blend         *)
(* function is the pair (BLEND_SRC, BLEND_DST) held in the table.          *)
C4_CombinedBlendFunc ==
    [][(last'.op = "setRenderState" /\ ~failed'
        /\ last'.state \in {STATE_BLEND_SRC, STATE_BLEND_DST}) =>
          /\ (last'.old # last'.value =>
                issued' =
                  << IF last'.state = STATE_BLEND_SRC
                     THEN <<"glBlendFunc", getGLBlendFactor(last'.value),
                            getGLBlendFactor(m_auState[STATE_BLEND_DST])>>
                     ELSE <<"glBlendFunc",
                            getGLBlendFactor(m_auState[STATE_BLEND_SRC]),
                            getGLBlendFactor(last'.value)>> >>)
          /\ m_auState'[last'.state] = last'.value
          /\ gl'.blendSrc = getGLBlendFactor(m_auState'[STATE_BLEND_SRC])
          /\ gl'.blendDst = getGLBlendFactor(m_auState'[STATE_BLEND_DST])]_vars

C4_Witness ==
    /\ IsSet /\ ~failed /\ last.state = STATE_BLEND_SRC /\ last.old # last.value
    /\ gl.blendSrc = "GL_ONE" /\ gl.blendDst = "GL_SRC_ALPHA"

(* C5: every setRenderState call on an unimplemented state enumerant fails *)
(* fatally, for every value and in every reachable table.                  *)
C5_UnimplementedFatal ==
    [][(last'.op = "setRenderState" /\ last'.state \in UnimplementedStates)
          => failed']_vars

(* C6: a setRenderState call with a state enumerant outside the declared   *)
(* range fails fatally and leaves the table and the driver untouched,      *)
(* issuing no driver call.                                                 *)
C6_OutOfRangeFatal ==
    [][(last'.op = "setRenderState" /\ last'.state >= STATE_COUNT) =>
          /\ failed'
          /\ m_auState' = m_auState /\ gl' = gl /\ told' = told
          /\ issued' = <<>> /\ last'.applied = 0]_vars

C6_Witness ==
    /\ failed /\ IsSet /\ last.state >= STATE_COUNT /\ issued = <<>>
    /\ m_auState[STATE_BLEND] = RS_TRUE

(***************************************************************************)
(* Properties of the shader and framebuffer wrappers.                      *)
(***************************************************************************)
Count(calls, fn) == Cardinality({i \in 1..Len(calls) : calls[i][1] = fn})

IsShaderBind == last.op = "Shader::bind"

(* The rule of Shader::bind: a driver bind exactly when the program is not *)
(* the recorded one, and the marker records the program afterwards.        *)
ShaderBindRule ==
    last'.op = "Shader::bind" =>
        /\ issued' = IF Shader_m_uCurrentlyBound # last'.state
                     THEN << <<"glUseProgram", last'.state>> >>
                     ELSE <<>>
        /\ Shader_m_uCurrentlyBound' = last'.state
        /\ gl'.program = last'.state
        /\ ~failed'

ShaderBindPair ==
    IsShaderBind /\ last'.op = "Shader::bind" /\ last'.state = last.state

(* C7 as stated: the rule of bind(), and bind() called twice in a row on   *)
(* the same program results in exactly one driver bind call.               *)
C7_BindTwiceExactlyOne ==
    [][ShaderBindRule
        /\ (ShaderBindPair =>
              Count(issued, "glUseProgram") + Count(issued', "glUseProgram") = 1)]_vars

(* C7 amended: the rule of bind(); the second of two bind() calls in a row *)
(* on the same program issues no driver bind, so the two calls result in   *)
(* exactly one driver bind when the program was not the recorded one       *)
(* before the first call and in none when it was.                          *)
C7_BindElision ==
    [][ShaderBindRule
        /\ (ShaderBindPair =>
              /\ issued' = <<>>
              /\ Count(issued, "glUseProgram") + Count(issued', "glUseProgram") =
                    (IF last.old # last.state THEN 1 ELSE 0))]_vars

C7_Witness ==
    /\ IsShaderBind /\ last.repeat /\ issued = <<>>
    /\ Shader_m_uCurrentlyBound = 3 /\ gl.program = 3

IsBindTarget == last.op = "FrameBuffer::bind(target)"

(* The rule of FrameBuffer::bind(colourTarget): one reattachment exactly   *)
(* when the target is not the tracked colour attachment, and the tracked   *)
(* attachment is the target afterwards.                                    *)
BindTargetRule ==
    last'.op = "FrameBuffer::bind(target)" =>
        /\ Count(issued', "glFramebufferTexture2D") =
              (IF FrameBuffer_m_uCurrentlyBoundColourTarget # last'.value THEN 1 ELSE 0)
        /\ (FrameBuffer_m_uCurrentlyBoundColourTarget # last'.value =>
              issued'[Len(issued')] = <<"glFramebufferTexture2D", 0, last'.value>>)
        /\ FrameBuffer_m_uCurrentlyBoundColourTarget' = last'.value
        /\ ~failed'

BindTargetPair ==
    /\ IsBindTarget /\ last'.op = "FrameBuffer::bind(target)"
    /\ last'.state = last.state /\ last'.value = last.value

(* F.bind(A) is followed by F.bind(B) with B another texture. *)
BindOtherTarget ==
    /\ IsBindTarget /\ last'.op = "FrameBuffer::bind(target)"
    /\ last'.state = last.state /\ last'.value # last.value

(* C8 as stated: F.bind(A) followed by F.bind(A) performs exactly one      *)
(* reattachment, a following F.bind(B) exactly one, to B, and the rule of  *)
(* bind(colourTarget) holds.                                               *)
C8_BindTargetTwiceExactlyOne ==
    [][/\ BindTargetRule
       /\ (BindTargetPair =>
              Count(issued, "glFramebufferTexture2D")
                + Count(issued', "glFramebufferTexture2D") = 1)
       /\ (BindOtherTarget => Count(issued', "glFramebufferTexture2D") = 1)]_vars

(* C8 amended: the second F.bind(A) of two in a row performs no            *)
(* reattachment, so the two perform exactly one when A was not the tracked *)
(* colour attachment before the first call and none when it was; a         *)
(* following F.bind(B) performs exactly one reattachment, to B; the rule   *)
(* of bind(colourTarget) holds.                                            *)
C8_BindTargetElision ==
    [][/\ BindTargetRule
       /\ (BindTargetPair =>
              /\ Count(issued', "glFramebufferTexture2D") = 0
              /\ Count(issued, "glFramebufferTexture2D")
                   + Count(issued', "glFramebufferTexture2D") =
                     (IF last.old # last.value THEN 1 ELSE 0))
       /\ (BindOtherTarget =>
              /\ Count(issued', "glFramebufferTexture2D") = 1
              /\ issued'[Len(issued')] = <<"glFramebufferTexture2D", 0, last'.value>>)]_vars

C8_Witness ==
    /\ IsBindTarget /\ last.repeat /\ helper.constructed /\ last.state = helper.fb
    /\ last.value = 2 /\ gl.attach[helper.fb][1] = 2
    /\ Count(issued, "glFramebufferTexture2D") = 0

(* C9: the one recorded framebuffer identifier is always the framebuffer   *)
(* the driver has bound, and F.bind() issues a driver bind only when F is  *)
(* not the recorded framebuffer and records F afterwards.                  *)
C9_FramebufferMarker ==
    /\ [](FrameBuffer_m_uCurrentlyBound = gl.framebuffer)
    /\ [][last'.op \in {"FrameBuffer::bind", "FrameBuffer::bind(target)"} =>
            /\ Count(issued', "glBindFramebuffer") =
                  (IF FrameBuffer_m_uCurrentlyBound # last'.state THEN 1 ELSE 0)
            /\ (last'.op = "FrameBuffer::bind" =>
                  issued' = IF FrameBuffer_m_uCurrentlyBound # last'.state
                            THEN << <<"glBindFramebuffer", last'.state>> >>
                            ELSE <<>>)
            /\ FrameBuffer_m_uCurrentlyBound' = last'.state]_vars

C9_Witness ==
    /\ last.op = "FrameBuffer::bind" /\ helper.constructed
    /\ last.state = BackBuffer /\ last.old = helper.fb
    /\ gl.framebuffer = BackBuffer /\ FrameBuffer_m_uCurrentlyBound = BackBuffer
    /\ issued = << <<"glBindFramebuffer", BackBuffer>> >>

Declares(names, name) == \E i \in 1..Len(names) : names[i] = name

(* C10: looking up a name the program does not declare yields the sentinel *)
(* index (and a declared name its location); setUniform on the sentinel,   *)
(* for every value shape, changes nothing in the driver and does not fail; *)
(* updateRegion completes with its draw as last driver call for every      *)
(* shader, also one lacking blit uniforms, and leaves the uniforms of      *)
(* names it does not set untouched.                                        *)
C10_AbsentUniformIgnored ==
    [][/\ (last'.op = "Shader::getUniform" =>
              /\ (last'.value = NotFound) =
                    ~Declares(ProgramUniforms(last'.state), last'.name)
              /\ (last'.value # NotFound =>
                    ProgramUniforms(last'.state)[last'.value + 1] = last'.name))
       /\ (last'.op = "Shader::getAttribute" =>
              (last'.value = NotFound) =
                    ~Declares(ProgramAttributes(last'.state), last'.name))
       /\ ((last'.op = "Shader::setUniform" /\ last'.value = NotFound) =>
              gl' = gl /\ ~failed')
       /\ (last'.op = "updateRegion" =>
              /\ ~failed'
              /\ issued'[Len(issued')] = <<"glDrawElements", "TRIANGLES", 6, 0>>
              /\ Count(issued', "glDrawElements") = 1
              /\ \A prog \in Programs \ {last'.state} :
                    gl'.uniforms[prog] = gl.uniforms[prog]
              /\ \A i \in 1..Len(ProgramUniforms(last'.state)) :
                    ProgramUniforms(last'.state)[i] \notin BlitUniforms =>
                       gl'.uniforms[last'.state][i] = gl.uniforms[last'.state][i])]_vars

C10_Witness ==
    /\ last.op = "updateRegion" /\ last.state = 3 /\ ~failed
    /\ gl.program = 3
    /\ gl.uniforms[3][2] = <<"vec2", 2, 2, 0, 0>>
    /\ gl.uniforms[3][3] = <<"vec2", 0, 0, 0, 0>>
    /\ issued[Len(issued)] = <<"glDrawElements", "TRIANGLES", 6, 0>>

(***************************************************************************)
(* Properties of the blit utility (specification SpecBlit).                *)
(***************************************************************************)
UpdateOps == {"updateRegion", "updateRegion/5", "updateRegion/3"}

(* The arguments of the updateRegion call recorded in `last`. *)
ShaderOf(id) == CHOOSE s \in BlitShaders : m_uID(s) = id

RegionPairOf(name) ==
    CHOOSE rp \in RegionPairs \cup {<<FullRegion, LowerLeftRegion>>} :
        RegionPairName(rp) = name

Opt(cond, call) == IF cond THEN <<call>> ELSE <<>>

CallNames(calls) == [i \in 1..Len(calls) |-> calls[i][1]]

BlitUniformOrder == <<"vUVOffset", "vUVScale", "vPosOffset", "vPosScale", "sTexture">>

(* The driver calls of updateRegion(.., target, shader with program id),   *)
(* by name, given the markers before the call: binds that the markers show *)
(* to be redundant are skipped.                                            *)
UpdateCallNames(id, target) ==
    Opt(FrameBuffer_m_uCurrentlyBound # helper.fb, "glBindFramebuffer")
    \o Opt(FrameBuffer_m_uCurrentlyBoundColourTarget # target, "glFramebufferTexture2D")
    \o <<"glViewport">>
    \o Opt(Shader_m_uCurrentlyBound # id, "glUseProgram")
    \o <<"glUniform", "glUniform", "glUniform", "glUniform", "glUniform",
         "glBindTexture", "glBindVertexArray", "glDrawElements">>

(* C11: every updateRegion call issues its driver calls in the order       *)
(* framebuffer bind and colour-target attachment, viewport (0, 0, width,   *)
(* height of the destination), shader bind, the five uniforms in the order *)
(* of the source, source-texture bind, quad bind and exactly one indexed   *)
(* draw of 6 indices from offset 0 as the last call; at the draw the       *)
(* helper's framebuffer, the shader, the source texture and the quad are   *)
(* the bound objects.                                                      *)
C11_StepOrder ==
    [][last'.op \in UpdateOps =>
        LET n == Len(issued') IN
        /\ ~failed'
        /\ CallNames(issued') = UpdateCallNames(last'.state, last'.value)
        /\ issued'[n] = <<"glDrawElements", "TRIANGLES", 6, 0>>
        /\ issued'[n - 1] = <<"glBindVertexArray", helper.quad.vao>>
        /\ issued'[n - 2] = <<"glBindTexture", last'.old>>
        /\ \A i \in 1..5 :
              issued'[n - 8 + i][2] =
                  getUniform(ShaderOf(last'.state), BlitUniformOrder[i])
        /\ \A i \in 1..n :
              /\ issued'[i][1] = "glBindFramebuffer" =>
                    issued'[i] = <<"glBindFramebuffer", helper.fb>>
              /\ issued'[i][1] = "glFramebufferTexture2D" =>
                    issued'[i] = <<"glFramebufferTexture2D", 0, last'.value>>
              /\ issued'[i][1] = "glViewport" =>
                    issued'[i] = <<"glViewport", <<0, 0, TextureWidth(last'.value),
                                                   TextureHeight(last'.value)>> >>
              /\ issued'[i][1] = "glUseProgram" =>
                    issued'[i] = <<"glUseProgram", last'.state>>
        /\ gl'.framebuffer = helper.fb
        /\ gl'.program = last'.state
        /\ gl'.texture2D = last'.old
        /\ gl'.vao = helper.quad.vao
        /\ gl'.viewport = <<0, 0, TextureWidth(last'.value), TextureHeight(last'.value)>>]_vars

C11_Witness ==
    /\ last.op = "updateRegion" /\ ~failed
    /\ CallNames(issued) =
          <<"glBindFramebuffer", "glFramebufferTexture2D", "glViewport", "glUseProgram",
            "glUniform", "glUniform", "glUniform", "glUniform", "glUniform",
            "glBindTexture", "glBindVertexArray", "glDrawElements">>
    /\ last.state = 1 /\ last.value = 2 /\ last.old = SourceOf(2)

(* The position offset + scale * q of the unit quad's corner q, in the     *)
(* unit of the coordinates (`one` is the length 1.0).                      *)
QuadMap(vOffset, vScale, q, one) ==
    <<vOffset[1] + (vScale[1] * q[1]) \div one,
      vOffset[2] + (vScale[2] * q[2]) \div one>>

(* The values updateRegion uploads for the region pair rp, in call order. *)
UniformValuesOf(rp) ==
    <<Vec2Value(rp[1][1]), Vec2Value(Vec2Sub(rp[1][2], rp[1][1])),
      Vec2Value(rp[2][1]), Vec2Value(Vec2Sub(rp[2][2], rp[2][1])), IntValue(0)>>

(* C12: updateRegion uploads vUVOffset = minFrom, vUVScale = maxFrom -     *)
(* minFrom, vPosOffset = minTo, vPosScale = maxTo - minTo and sTexture = 0 *)
(* (and the shader's declared uniforms hold these values afterwards), the  *)
(* corners (0,0) and (1,1) of the unit quad map onto minFrom, maxFrom and  *)
(* onto minTo, maxTo, and the overloads that omit a region leave the       *)
(* program in the state of the full call with (0,0)-(1,1) for that region. *)
C12_RegionUniforms ==
    [][last'.op \in UpdateOps =>
        LET n == Len(issued')
            rp == RegionPairOf(last'.name)
            shader == ShaderOf(last'.state)
            vals == UniformValuesOf(rp)
        IN
        /\ \A i \in 1..5 :
              /\ issued'[n - 8 + i][1] = "glUniform"
              /\ issued'[n - 8 + i][3] = vals[i]
              /\ getUniform(shader, BlitUniformOrder[i]) # NotFound =>
                    gl'.uniforms[last'.state][getUniform(shader, BlitUniformOrder[i]) + 1]
                        = vals[i]
        /\ QuadMap(rp[1][1], Vec2Sub(rp[1][2], rp[1][1]), <<0, 0>>, Unit) = rp[1][1]
        /\ QuadMap(rp[1][1], Vec2Sub(rp[1][2], rp[1][1]), <<Unit, Unit>>, Unit) = rp[1][2]
        /\ QuadMap(rp[2][1], Vec2Sub(rp[2][2], rp[2][1]), <<0, 0>>, Unit) = rp[2][1]
        /\ QuadMap(rp[2][1], Vec2Sub(rp[2][2], rp[2][1]), <<Unit, Unit>>, Unit) = rp[2][2]
        /\ last'.op = "updateRegion/5" =>
              /\ rp[1] = FullRegion
              /\ CommitMachine(updateRegion(Current, <<0, 0>>, <<Unit, Unit>>, last'.old,
                                            rp[2][1], rp[2][2], last'.value, shader))
        /\ last'.op = "updateRegion/3" =>
              /\ rp = <<FullRegion, FullRegion>>
              /\ CommitMachine(updateRegion(Current, <<0, 0>>, <<Unit, Unit>>, last'.old,
                                            <<0, 0>>, <<Unit, Unit>>, last'.value,
                                            shader))]_vars

C12_Witness ==
    /\ last.op = "updateRegion" /\ ~failed /\ last.state = 1
    /\ last.name = "centre to lower left"
    /\ gl.uniforms[1] = << <<"vec2", 1, 1, 0, 0>>, <<"vec2", 2, 2, 0, 0>>,
                           <<"vec2", 0, 0, 0, 0>>, <<"vec2", 2, 2, 0, 0>>,
                           <<"int", 0, 0, 0, 0>> >>

(* C13: constructing the helper allocates exactly one framebuffer object   *)
(* and one quad (one vertex array, a vertex and an index buffer); no       *)
(* updateRegion call allocates a framebuffer or a buffer, replaces the     *)
(* helper's framebuffer or quad, or uses another framebuffer or quad.      *)
C13_OneFramebufferOneQuad ==
    /\ [](IF helper.constructed
          THEN /\ gl.fbos = {OffscreenFB, helper.fb} /\ helper.fb # OffscreenFB
               /\ gl.numVaos = 1 /\ gl.numBuffers = 2
               /\ helper.quad = [vao |-> 1, vbo |-> 1, ib |-> 2, numIndices |-> 6]
          ELSE gl.fbos = {OffscreenFB} /\ gl.numVaos = 0 /\ gl.numBuffers = 0)
    /\ [][/\ last'.op = "TextureUpdateHelper" =>
              /\ Count(issued', "glGenFramebuffers") = 1
              /\ Count(issued', "glGenVertexArrays") = 1
              /\ Count(issued', "glGenBuffers") = 2
          /\ last'.op \in UpdateOps =>
              /\ Count(issued', "glGenFramebuffers") = 0
              /\ Count(issued', "glGenVertexArrays") = 0
              /\ Count(issued', "glGenBuffers") = 0
              /\ Count(issued', "glBufferData") = 0
              /\ helper' = helper
              /\ gl'.fbos = gl.fbos
              /\ gl'.framebuffer = helper.fb
              /\ gl'.vao = helper.quad.vao]_vars

C13_Witness ==
    /\ last.op = "updateRegion" /\ last.repeat /\ ~failed
    /\ helper.constructed /\ gl.numVaos = 1 /\ gl.numBuffers = 2
    /\ gl.fbos = {OffscreenFB, helper.fb}
    /\ gl.uniforms[3][1] # ZeroOf("vec2") /\ gl.uniforms[1][2] # ZeroOf("vec2")

(***************************************************************************)
(* Properties of clearing and of geometry creation (specification          *)
(* SpecDraw).                                                              *)
(***************************************************************************)
(* C16: clear(mask) issues exactly one glClear call and nothing else; its  *)
(* GL mask has the colour, depth and stencil bit set exactly when the      *)
(* abstract mask has the COLOUR, DEPTH and STENCIL bit set, and no other   *)
(* bit; clear() issues the one call with all three bits.                   *)
C16_ClearMask ==
    [][/\ last'.op = "clear" =>
             /\ ~failed'
             /\ Len(issued') = 1 /\ issued'[1][1] = "glClear"
             /\ (issued'[1][2] \div 16384) % 2 = (last'.state % 2)
             /\ (issued'[1][2] \div 256) % 2 = ((last'.state \div 2) % 2)
             /\ (issued'[1][2] \div 1024) % 2 = ((last'.state \div 4) % 2)
             /\ issued'[1][2] = 16384 * ((issued'[1][2] \div 16384) % 2)
                                 + 256 * ((issued'[1][2] \div 256) % 2)
                                 + 1024 * ((issued'[1][2] \div 1024) % 2)
             /\ gl' = gl /\ m_auState' = m_auState
       /\ last'.op = "clear()" =>
             /\ ~failed'
             /\ issued' = << <<"glClear", 16384 + 256 + 1024>> >>
             /\ gl' = gl /\ m_auState' = m_auState]_vars

C16_Witness ==
    /\ last.op = "clear" /\ last.state = 13 /\ ~failed
    /\ issued = << <<"glClear", 16384 + 1024>> >>

(* The n-th call of function fn among calls. *)
NthCall(calls, fn, n) ==
    calls[CHOOSE i \in 1..Len(calls) :
             /\ calls[i][1] = fn
             /\ Cardinality({j \in 1..i : calls[j][1] = fn}) = n]

(* C17: when createStaticGeometry returns, no vertex array, no array       *)
(* buffer and no element array buffer is bound in the context, whatever    *)
(* vertex list it was given and whatever was bound before, and the         *)
(* returned geometry holds the vertex array and the two buffers generated  *)
(* during the call, which no geometry created earlier holds.               *)
C17_UnboundOnReturn ==
    [][last'.op = "createStaticGeometry" =>
        /\ ~failed'
        /\ gl'.vao = 0 /\ gl'.arrayBuffer = 0 /\ gl'.elementBuffer[gl'.vao] = 0
        /\ Count(issued', "glGenVertexArrays") = 1
        /\ Count(issued', "glGenBuffers") = 2
        /\ Len(geometries') = Len(geometries) + 1
        /\ geometries'[last'.state].geometry.vao =
              NthCall(issued', "glGenVertexArrays", 1)[2]
        /\ geometries'[last'.state].geometry.vbo = NthCall(issued', "glGenBuffers", 1)[2]
        /\ geometries'[last'.state].geometry.ib = NthCall(issued', "glGenBuffers", 2)[2]
        /\ geometries'[last'.state].geometry.vbo # geometries'[last'.state].geometry.ib
        /\ \A j \in 1..Len(geometries) :
              /\ geometries'[j] = geometries[j]
              /\ geometries[j].geometry.vao # geometries'[last'.state].geometry.vao
              /\ {geometries[j].geometry.vbo, geometries[j].geometry.ib}
                    \cap {geometries'[last'.state].geometry.vbo,
                          geometries'[last'.state].geometry.ib} = {}]_vars

C17_Witness ==
    /\ last.op = "createStaticGeometry" /\ ~failed /\ last.name = "triangle"
    /\ Len(geometries) = 2
    /\ geometries[2].geometry = [vao |-> 2, vbo |-> 3, ib |-> 4, numIndices |-> 3]
    /\ gl.vao = 0 /\ gl.arrayBuffer = 0 /\ gl.elementBuffer[0] = 0
    /\ gl.elementBuffer[1] = 2 /\ gl.elementBuffer[2] = 4

EmptyLists == {"no vertices", "no indices", "empty"}

(* C18: a geometry created from an empty vertex list or an empty index     *)
(* list (creation does not fail) draws zero primitives, the same for every *)
(* such input, and the draw is never undefined.                            *)
C18_EmptyInputConsistent ==
    [][(last'.op = "draw" /\ geometries[last'.state].spVertexList \in EmptyLists) =>
          last'.name = "nothing" /\ ~failed']_vars

(***************************************************************************)
(* Properties of the resource cache (specification SpecCache).             *)
(***************************************************************************)
(* C14: a fetch(k) while an instance loaded for k is still held returns    *)
(* that instance without running the loader, so two fetches in a row       *)
(* return the identical instance, loaded once; a fetch(k) after every      *)
(* handle on the instance was dropped (or with no entry at all) runs the   *)
(* loader once and returns the newly loaded instance.                      *)
C14_FetchSharing ==
    [][last'.op = "fetch" =>
        /\ Alive(CurrentCache, last'.name) =>
              /\ last'.state = m_Cache[last'.name]
              /\ last'.value = 0
              /\ loaded' = loaded /\ m_Cache' = m_Cache
              /\ handles' = [handles EXCEPT ![last'.state] = @ + 1]
        /\ ~Alive(CurrentCache, last'.name) =>
              /\ last'.value = 1
              /\ loaded' = Append(loaded, last'.name)
              /\ last'.state = Len(loaded')
              /\ last'.state # m_Cache[last'.name]
              /\ m_Cache' = [m_Cache EXCEPT ![last'.name] = last'.state]
              /\ handles' = Append(handles, 1)
        /\ (last.op = "fetch" /\ last.name = last'.name) =>
              /\ last'.state = last.state
              /\ last'.value = 0
              /\ Cardinality({i \in 1..Len(loaded') : loaded'[i] = last'.name
                                                     /\ i >= last.state}) = 1]_vars

C14_Witness ==
    /\ last.op = "fetch" /\ last.name = "x" /\ last.value = 1 /\ last.old = 1
    /\ loaded = <<"x", "y", "x">> /\ handles = <<0, 2, 1>>
    /\ m_Cache["x"] = 3

(* C15: at any time the instances that are alive were loaded for distinct  *)
(* keys, and the live instance of a key is the one the cache stores for    *)
(* it: two handles for one key alive at once refer to one instance.        *)
C15_OneLiveInstancePerKey ==
    /\ \A i, j \in 1..Len(loaded) :
          (handles[i] > 0 /\ handles[j] > 0 /\ loaded[i] = loaded[j]) => i = j
    /\ \A i \in 1..Len(loaded) : handles[i] > 0 => m_Cache[loaded[i]] = i
    /\ Len(handles) = Len(loaded)

C15_Witness ==
    /\ loaded = <<"x", "x", "y", "x">> /\ handles = <<0, 0, 2, 2>>
    /\ m_Cache["x"] = 4 /\ m_Cache["y"] = 3

(* C19: during every updateRegion call the five uniform uploads are issued *)
(* while the program of the shader passed in is the program in use: the    *)
(* shader's bind precedes them, no program is bound after the first of     *)
(* them, and the marker and the driver agree on the program.               *)
C19_UniformsOnBoundShader ==
    /\ [](Shader_m_uCurrentlyBound = gl.program)
    /\ [][last'.op \in UpdateOps =>
            /\ Count(issued', "glUniform") = 5
            /\ \A i \in 1..Len(issued') :
                  /\ issued'[i][1] = "glUniform" => issued'[i][4] = last'.state
                  /\ issued'[i][1] = "glUseProgram" =>
                        /\ issued'[i][2] = last'.state
                        /\ \A j \in 1..i : issued'[j][1] # "glUniform"
            /\ Count(issued', "glUseProgram") =
                  (IF Shader_m_uCurrentlyBound # last'.state THEN 1 ELSE 0)
            /\ gl'.program = last'.state]_vars

C19_Witness ==
    /\ last.op = "updateRegion" /\ ~failed /\ last.state = 2
    /\ Count(issued, "glUseProgram") = 1 /\ Count(issued, "glBindFramebuffer") = 1
    /\ gl.uniforms[1][2] # ZeroOf("vec2") /\ gl.uniforms[3][2] # ZeroOf("vec2")
    /\ \A i \in 1..Len(issued) : issued[i][1] = "glUniform" => issued[i][4] = 2

NumAttached(f) == Cardinality({i \in 1..Len(gl.attach[f]) : gl.attach[f][i] # 0})

IsOwnAttachment == last'.value \in {gl.attach[last'.state][i] : i \in 1..2}

ContextOps == {"setClearColour", "setViewport"}

ContextCall ==
    IF last'.op = "setClearColour"
    THEN <<"glClearColor", ClearColours[last'.state]>>
    ELSE <<"glViewport", Viewports[last'.state]>>

(* C22 as stated: clear colour and viewport are entries of the             *)
(* render-state table, changed through setRenderState like the others, so  *)
(* that setting the value that is already in effect issues no driver call. *)
C22_ContextSetsElided ==
    [][(last'.op \in ContextOps /\ last'.old = 1) => issued' = <<>>]_vars

(* C22 amended: setClearColour and setViewport are entry points of their   *)
(* own: every call issues exactly one driver call, glClearColor or         *)
(* glViewport with the value given, also when that value is already in     *)
(* effect, and no entry of the render-state table changes.                 *)
C22_ContextSetsAlwaysIssued ==
    [][last'.op \in ContextOps =>
        /\ issued' = <<ContextCall>>
        /\ m_auState' = m_auState /\ told' = told
        /\ last'.op = "setClearColour" =>
              gl' = [gl EXCEPT !.clearColor = ClearColours[last'.state]]
        /\ last'.op = "setViewport" =>
              gl' = [gl EXCEPT !.viewport = Viewports[last'.state]]]_vars

C22_Witness ==
    /\ last.op = "setClearColour" /\ last.old = 1 /\ last.state = 2
    /\ issued = <<(<<"glClearColor", ClearColours[2]>>)>>
    /\ m_auState[STATE_BLEND] = RS_TRUE

(* The events the callbacks queue for these inputs, oldest first. *)
Queued(inputs) == glfwPollEvents(GLFWApp, inputs).aEvents

(* The call the switch of processEvents makes for one event. *)
CallOf(sEvent) == DispatchEvent(GLFWApp, sEvent).dispatched[1]

Returned == last'.op = "processEvents" /\ ~failed'

SetsShouldClose(input) ==
    input = <<"close", 0, 0>> \/ input = <<"key", GLFW_KEY_ESCAPE, GLFW_PRESS>>

CallsAt(calls, fn, args) ==
    {i \in 1..Len(calls) :
        /\ calls[i][1] = fn
        /\ \A k \in 1..Len(args) : calls[i][k + 1] = args[k]}

Before(A, B) == A # {} /\ B # {} /\ \A i \in A, j \in B : i < j

(* The attribute layout a vertex array holds for this vertex list. *)
LayoutOf(vl, vbo) ==
    {[iIndex |-> vl.attributes[k].iIndex, buffer |-> vbo,
      iOffset |-> vl.attributes[k].iOffset] : k \in 1..Len(vl.attributes)}

(* C25: createStaticGeometry binds the new vertex array before it binds    *)
(* the vertex buffer, sets the attribute layout and binds the index        *)
(* buffer, and unbinds the vertex array before it unbinds the two          *)
(* buffers; so the vertex array of the returned geometry holds the layout  *)
(* of every attribute of the vertex list, on the new vertex buffer, and    *)
(* the new index buffer, the vertex arrays of earlier geometries keep      *)
(* theirs, and binding a geometry for a draw makes its vertex array, with  *)
(* that layout and index buffer, current.                                  *)
C25_VertexArrayKeepsLayout ==
    [][/\ last'.op = "createStaticGeometry" =>
            LET g == geometries'[last'.state].geometry
                vl == VertexListOf(last'.name)
                bindVAO == CallsAt(issued', "glBindVertexArray", <<g.vao>>)
                unbindVAO == CallsAt(issued', "glBindVertexArray", <<0>>)
                bindVBO == CallsAt(issued', "glBindBuffer", <<"GL_ARRAY_BUFFER", g.vbo>>)
                bindIB == CallsAt(issued', "glBindBuffer",
                                  <<"GL_ELEMENT_ARRAY_BUFFER", g.ib>>)
                layout == CallsAt(issued', "glVertexAttribPointer", <<>>)
            IN /\ Before(bindVAO, bindVBO) /\ Before(bindVAO, bindIB)
               /\ Before(bindIB, unbindVAO) /\ Before(bindVBO, unbindVAO)
               /\ Before(unbindVAO, CallsAt(issued', "glBindBuffer",
                                            <<"GL_ARRAY_BUFFER", 0>>))
               /\ Before(unbindVAO, CallsAt(issued', "glBindBuffer",
                                            <<"GL_ELEMENT_ARRAY_BUFFER", 0>>))
               /\ Cardinality(layout) = Len(vl.attributes)
               /\ layout # {} => Before(bindVBO, layout) /\ Before(layout, unbindVAO)
               /\ gl'.attribs[g.vao] = LayoutOf(vl, g.vbo)
               /\ gl'.elementBuffer[g.vao] = g.ib
               /\ \A j \in 1..Len(geometries) :
                     /\ gl'.attribs[geometries[j].geometry.vao] =
                           gl.attribs[geometries[j].geometry.vao]
                     /\ gl'.elementBuffer[geometries[j].geometry.vao] =
                           gl.elementBuffer[geometries[j].geometry.vao]
       /\ last'.op = "draw" =>
            LET g == geometries[last'.state].geometry
            IN /\ gl'.vao = g.vao
               /\ gl'.elementBuffer[gl'.vao] = g.ib
               /\ gl'.attribs[gl'.vao] =
                     LayoutOf(VertexListOf(geometries[last'.state].spVertexList), g.vbo)]_vars

C25_Witness ==
    /\ last.op = "draw" /\ last.state = 1 /\ Len(geometries) = 2
    /\ geometries[1].spVertexList = "quad" /\ geometries[2].spVertexList = "triangle"
    /\ gl.vao = 1 /\ gl.elementBuffer[gl.vao] = 2
    /\ gl.attribs[gl.vao] = {[iIndex |-> 0, buffer |-> 1, iOffset |-> 0],
                             [iIndex |-> 1, buffer |-> 1, iOffset |-> 12]}

RenderStateFields ==
    {"blend", "blendSrc", "blendDst", "blendEq", "depthTest", "cullFace", "cullFaceMode"}

(* C26: constructing the helper and updateRegion change no entry of the    *)
(* render-state table and no render state of the driver, and leave the     *)
(* helper's framebuffer bound; updateRegion ends with its draw call, so    *)
(* that on return the target is the tracked colour attachment, the shader  *)
(* passed is the program in use and the one recorded as bound, and the     *)
(* viewport is the target's full size, whatever was bound before.          *)
C26_BindingsLeftAsUsed ==
    [][(last'.op \in UpdateOps \cup {"TextureUpdateHelper"}) =>
        /\ m_auState' = m_auState /\ told' = told
        /\ \A f \in RenderStateFields : gl'[f] = gl[f]
        /\ helper'.constructed
        /\ gl'.framebuffer = helper'.fb
        /\ FrameBuffer_m_uCurrentlyBound' = helper'.fb
        /\ last'.op = "TextureUpdateHelper" =>
              /\ gl'.viewport = gl.viewport /\ gl'.program = gl.program
              /\ Shader_m_uCurrentlyBound' = Shader_m_uCurrentlyBound
        /\ last'.op \in UpdateOps =>
              /\ issued'[Len(issued')][1] = "glDrawElements"
              /\ FrameBuffer_m_uCurrentlyBoundColourTarget' = last'.value
              /\ gl'.program = last'.state
              /\ Shader_m_uCurrentlyBound' = last'.state
              /\ gl'.viewport = <<0, 0, TextureWidth(last'.value),
                                  TextureHeight(last'.value)>>]_vars

C26_Witness ==
    /\ last.op = "updateRegion" /\ ~failed /\ last.value = 2
    /\ m_auState[STATE_BLEND] = RS_TRUE /\ gl.blend = "on"
    /\ gl.framebuffer = helper.fb /\ helper.fb \notin {BackBuffer, OffscreenFB}
    /\ FrameBuffer_m_uCurrentlyBoundColourTarget = 2
    /\ gl.program = m_uID("blit") /\ Shader_m_uCurrentlyBound = m_uID("blit")
    /\ gl.viewport = <<0, 0, TextureWidth(2), TextureHeight(2)>>

====
